---------------------------- MODULE Spec2Model ----------------------------
(***************************************************************************)
(* Model of icco/genidi: the 4-channel x 16-step sequencer (grid, tempo,   *)
(* play-head, MIDI output), its standard-MIDI-file codec (saveMIDI /       *)
(* loadMIDI) and the polyphonic synthesizer's voice pool.                  *)
(*                                                                         *)
(* Three specifications share the variables:                               *)
(*   SpecCodec  saveMIDI followed by loadMIDI into a fresh model           *)
(*   Spec       the sequencer application driven by keys and timer ticks   *)
(*   SpecSynth  the voice pool driven by NoteOn/NoteOff/.../Render         *)
(***************************************************************************)
EXTENDS Integers, Sequences, FiniteSets, TLC

(***************************************************************************)
(* Program constants                                                       *)
(***************************************************************************)
numSteps == 16

numChannels == 4

ticksPerQuarterNote == 960

maxVoices == 64

sampleRate == 44100

(* Bounds of the model (not program constants) *)
MaxActive == 2

MaxOps == 3

MaxFrames == 2

MaxKeys == 2

MaxPending == 2

MaxPorts == 1

MaxAttack == 2

MaxRelease == 13815

Channels == 0 .. (numChannels - 1)

Steps == 0 .. (numSteps - 1)

Paths == {"song.mid", "new_sequence.mid"}

VARIABLES
    \* ---- sequencerModel (src/internal/tui/sequencer.go) and model.mode
    mode, filePath, bpm, steps, notes, cursorX, cursorY, isPlaying,
    currentStep, message, selectedOut, selectingPort, outPort, midiOuts,
    \* ---- environment of the sequencer
    disk,       \* path -> NoFile or the SMF written there
    ticks,      \* intervals (ms) of the tea.Tick timers in flight
    sent,       \* messages handed to sendFunc during the last step
    sounding,   \* <<channel, key>> pairs the connected output holds on
    event,      \* what the last step was (history)
    nKeys,      \* number of budgeted key presses so far
    \* ---- codec harness
    pc, saved,
    \* ---- Synth (src/internal/audio/synth.go)
    voices, masterVolume, lastOp, nOps,
    \* ---- callers of the Synth
    mu,         \* the thread holding Synth.mu ("none": unlocked)
    thr,        \* thread -> where it is in its call
    serial,     \* the pool had the calls run one at a time in lock order
    rendered,   \* frames rendered so far
    \* ---- virtualModel (src/cmd/manual.go)
    session,    \* the virtual-device session and its resources
    ui,         \* activeNotes, lastMessage, messageCount and who accesses them
    \* ---- fileBrowserModel and model.height (src/internal/tui/sequencer.go)
    fb, height,
    fs          \* directory -> number of MIDI files in it

seqVars == <<mode, filePath, bpm, steps, notes, cursorX, cursorY, isPlaying,
             currentStep, message, selectedOut, selectingPort, outPort,
             midiOuts>>

envVars == <<disk, ticks, sent, sounding, event, nKeys>>

codecVars == <<pc, saved>>

callVars == <<mu, thr, serial, rendered, session, ui>>

synthVars == <<voices, masterVolume, lastOp, nOps, callVars>>

browserVars == <<fb, height, fs>>

vars == <<seqVars, envVars, codecVars, synthVars, browserVars>>

(***************************************************************************)
(* The file codec                                                          *)
(***************************************************************************)

(* defaultNotes := [numChannels]int{60, 62, 64, 65} *)
defaultNotes == [ch \in Channels |-> CASE ch = 0 -> 60 [] ch = 1 -> 62
                                       [] ch = 2 -> 64 [] OTHER -> 65]

DefaultNoteGrid == [ch \in Channels |-> [st \in Steps |-> defaultNotes[ch]]]

EmptyStepGrid == [ch \in Channels |-> [st \in Steps |-> FALSE]]

(* uint32 subtraction pos - lastTick.  TLC integers are 32-bit signed, so  *)
(* a wrapped result is represented by the largest values of that range.    *)
U32Sub(a, b) == IF a >= b THEN a - b ELSE (2147483647 - (b - a)) + 1

(* uint32(ticksPerQuarterNote / 4) *)
ticksPerStep == ticksPerQuarterNote \div 4

(* smf.MetaTempo(float64(bpm)): the tempo is stored as a 24-bit count of   *)
(* microseconds per quarter note, uint32(60000000 / bpm), capped.          *)
MetaTempoRoundUp(b) ==
    [delta |-> 0, kind |-> "Tempo",
     usec |-> IF (60000000 + b - 1) \div b > 16777215 THEN 16777215
              ELSE (60000000 + b - 1) \div b]

MetaTempo(b) ==
    [delta |-> 0, kind |-> "Tempo",
     usec |-> IF 60000000 \div b > 16777215 THEN 16777215
              ELSE 60000000 \div b]

(* int(tempoChanges[0].BPM) with BPM = 60000000 / usec as a float64 *)
TempoToBPM(usec) == 60000000 \div usec

NoteOnMsg(d, ch, key, vel) ==
    [delta |-> d, kind |-> "NoteOn", channel |-> ch, key |-> key,
     velocity |-> vel]

NoteOffMsg(d, ch, key) ==
    [delta |-> d, kind |-> "NoteOff", channel |-> ch, key |-> key,
     velocity |-> 0]

EndOfTrack(d) == [delta |-> d, kind |-> "EndOfTrack"]

(* Track 0 of saveMIDI: meter 4/4, tempo, close *)
TempoTrack(b) ==
    <<[delta |-> 0, kind |-> "Meter", num |-> 4, denom |-> 4],
      MetaTempo(b),
      EndOfTrack(0)>>

(* Absolute tick of a step in saveMIDI: uint32(step) * ticksPerStep *)
StepPosShortStep(st) == st * (ticksPerStep - 1)

StepPos(st) == st * ticksPerStep

(* The loop of saveMIDI with notes of ticksPerStep + 1 ticks: a note runs  *)
(* past the tick of the next step                                          *)
RECURSIVE ChannelEventsLongNote(_, _, _, _, _, _)
ChannelEventsLongNote(stp, nts, ch, st, lastTick, acc) ==
    IF st >= numSteps THEN [events |-> acc, lastTick |-> lastTick]
    ELSE IF stp[ch][st]
         THEN LET pos   == StepPos(st)
                  delta == U32Sub(pos, lastTick)
              IN ChannelEventsLongNote(stp, nts, ch, st + 1,
                     pos + (ticksPerStep + 1),
                     acc \o <<NoteOnMsg(delta, ch, nts[ch][st], 100),
                              NoteOffMsg(ticksPerStep + 1, ch, nts[ch][st])>>)
         ELSE ChannelEventsLongNote(stp, nts, ch, st + 1, lastTick, acc)

(* The loop of saveMIDI with notes of ticksPerStep ticks: a note ends on   *)
(* the tick of the next step                                               *)
RECURSIVE ChannelEventsLegato(_, _, _, _, _, _)
ChannelEventsLegato(stp, nts, ch, st, lastTick, acc) ==
    IF st >= numSteps THEN [events |-> acc, lastTick |-> lastTick]
    ELSE IF stp[ch][st]
         THEN LET pos   == StepPos(st)
                  delta == U32Sub(pos, lastTick)
              IN ChannelEventsLegato(stp, nts, ch, st + 1,
                     pos + ticksPerStep,
                     acc \o <<NoteOnMsg(delta, ch, nts[ch][st], 100),
                              NoteOffMsg(ticksPerStep, ch, nts[ch][st])>>)
         ELSE ChannelEventsLegato(stp, nts, ch, st + 1, lastTick, acc)

(* The loop over steps of one channel in saveMIDI.  Returns the events     *)
(* added so far and lastTick.                                              *)
RECURSIVE ChannelEvents(_, _, _, _, _, _)
ChannelEvents(stp, nts, ch, st, lastTick, acc) ==
    IF st >= numSteps THEN [events |-> acc, lastTick |-> lastTick]
    ELSE IF stp[ch][st]
         THEN LET pos   == StepPos(st)
                  delta == U32Sub(pos, lastTick)
              IN ChannelEvents(stp, nts, ch, st + 1,
                     pos + (ticksPerStep - 1),
                     acc \o <<NoteOnMsg(delta, ch, nts[ch][st], 100),
                              NoteOffMsg(ticksPerStep - 1, ch, nts[ch][st])>>)
         ELSE ChannelEvents(stp, nts, ch, st + 1, lastTick, acc)

(* One channel track of saveMIDI, closed at endTick *)
ChannelTrack(stp, nts, ch) ==
    LET r       == ChannelEvents(stp, nts, ch, 0, 0, <<>>)
        endTick == numSteps * ticksPerStep
    IN IF r.lastTick < endTick
       THEN Append(r.events, EndOfTrack(endTick - r.lastTick))
       ELSE Append(r.events, EndOfTrack(0))

(* The SMF that saveMIDI hands to WriteFile *)
EncodeSMF(stp, nts, b) ==
    [kind |-> "SMF",
     tracks |-> <<TempoTrack(b)>> \o
                [i \in 1 .. numChannels |-> ChannelTrack(stp, nts, i - 1)]]

NoFile == [kind |-> "NoFile"]

(* rd.TempoChanges(): the tempo events of the file, in track order *)
RECURSIVE TempoEvents(_)
TempoEvents(track) ==
    IF track = <<>> THEN <<>>
    ELSE (IF Head(track).kind = "Tempo" THEN <<Head(track)>> ELSE <<>>)
         \o TempoEvents(Tail(track))

RECURSIVE TempoChanges(_)
TempoChanges(tracks) ==
    IF tracks = <<>> THEN <<>>
    ELSE TempoEvents(Head(tracks)) \o TempoChanges(Tail(tracks))

(* The step a NoteOn at cumulative tick t belongs to *)
StepOfTickPerQuarter(t) == t \div ticksPerQuarterNote

(* step := int(currentTick / ticksPerStep) on a uint32; a tick of 2^31 or  *)
(* more is held as its two's complement t = tick - 2^32                    *)
StepOfTick(t) ==
    IF t >= 0 THEN t \div ticksPerStep
    ELSE LET x == (t + 2147483647) + 1
         IN (2147483647 \div ticksPerStep) + (x \div ticksPerStep)
            + ((x % ticksPerStep) + (2147483647 % ticksPerStep) + 1)
              \div ticksPerStep

(* currentTick += msg.Delta on uint32: a sum of 2^31 or more is held as    *)
(* its two's complement, so that a sum of 2^32 or more wraps to tick 0     *)
U32Add(a, b) ==
    IF a >= 0 /\ a > 2147483647 - b
    THEN ((a - 2147483647) - 1) + ((b - 2147483647) - 1)
    ELSE a + b

(* The loop over the messages of one track in loadMIDI.  A track writes  *)
(* only the row of its own channel: row = [steps, notes] of that channel.  *)
RECURSIVE ParseTrack(_, _, _)
ParseTrack(track, currentTick, row) ==
    IF track = <<>> THEN row
    ELSE LET msg  == Head(track)
             tick == U32Add(currentTick, msg.delta)
             st   == StepOfTick(tick)
         IN IF msg.kind = "NoteOn" /\ st < numSteps /\ msg.velocity > 0
            THEN ParseTrack(Tail(track), tick,
                     [steps |-> [row.steps EXCEPT ![st] = TRUE],
                      notes |-> [row.notes EXCEPT ![st] = msg.key]])
            ELSE ParseTrack(Tail(track), tick, row)

(* The loop over tracks 1..numChannels in loadMIDI: channel ch is read     *)
(* from track ch + 1 when the file has one (Go indexes tracks from 0),     *)
(* and keeps its initial row otherwise.                                    *)
ParseTracks(tracks) ==
    [ch \in Channels |->
        LET trackIdx == ch + 1
            initial  == [steps |-> [st \in Steps |-> FALSE],
                         notes |-> [st \in Steps |-> defaultNotes[ch]]]
        IN IF trackIdx < Len(tracks) /\ trackIdx <= numChannels
           THEN ParseTrack(tracks[trackIdx + 1], 0, initial)
           ELSE initial]

(* A file that is not a standard MIDI file *)
Garbage == [kind |-> "Garbage", tracks |-> <<>>]

(* What smf.ReadFile makes of the content of a path: an error for a       *)
(* missing or unparseable file                                             *)
ReadFailsOnlyMissing(content) == content.kind = "NoFile"

ReadFails(content) == content.kind \in {"NoFile", "Garbage"}

(* The grid loadMIDI builds from a parsed file *)
LoadedGrid(file) ==
    LET rows == ParseTracks(file.tracks)
    IN [steps |-> [ch \in Channels |-> rows[ch].steps],
        notes |-> [ch \in Channels |-> rows[ch].notes]]

(* The tempo loadMIDI takes from a parsed file *)
LoadedBPM(file) ==
    LET tc == TempoChanges(file.tracks)
    IN IF Len(tc) > 0 THEN TempoToBPM(tc[1].usec) ELSE 120

(* saveMIDI succeeds when a path is set and WriteFile (ok) succeeds *)
SaveSucceeds(path, ok) == path # "" /\ ok

(* The disk after saveMIDI of (stp, nts, b) to path *)
DiskAfterSave(path, ok, stp, nts, b) ==
    IF SaveSucceeds(path, ok)
    THEN [disk EXCEPT ![path] = EncodeSMF(stp, nts, b)]
    ELSE disk

(* refreshMIDIPorts: the port list is re-read from the system (n ports);   *)
(* a selection that fell off the list is dropped and the port closed.      *)
AllNotesOffFirstChannel ==
    <<[kind |-> "ControlChange", channel |-> 0, controller |-> 123,
       value |-> 0]>>

AllNotesOffMsgs == [i \in 1 .. numChannels |->
                       [kind |-> "ControlChange", channel |-> i - 1,
                        controller |-> 123, value |-> 0]]

(* What the connected output holds on after receiving msgs *)
RECURSIVE Deliver(_, _)
Deliver(snd, msgs) ==
    IF msgs = <<>> THEN snd
    ELSE LET m == Head(msgs)
         IN Deliver(CASE m.kind = "NoteOn" -> snd \cup {<<m.channel, m.key>>}
                      [] m.kind = "NoteOff" -> snd \ {<<m.channel, m.key>>}
                      [] OTHER -> {p \in snd : p[1] # m.channel},
                    Tail(msgs))

(* loadMIDI(path): every sequencerModel field, and the disk when the file  *)
(* could not be read and the default is written.  ok: WriteFile succeeds;  *)
(* n: the number of output ports the system lists.                         *)
loadMIDI(path, ok, n) ==
    /\ filePath' = path
    /\ cursorX' = 0
    /\ cursorY' = 0
    /\ isPlaying' = FALSE
    /\ currentStep' = 0
    /\ selectedOut' = -1
    /\ selectingPort' = FALSE
    /\ midiOuts' = n
    /\ outPort' = outPort
    /\ IF ReadFails(disk[path])
       THEN /\ bpm' = 120
            /\ steps' = EmptyStepGrid
            /\ notes' = DefaultNoteGrid
            /\ disk' = DiskAfterSave(path, ok, EmptyStepGrid,
                                     DefaultNoteGrid, 120)
            /\ message' = IF SaveSucceeds(path, ok) THEN "MIDI file saved"
                          ELSE "Loaded"
       ELSE /\ bpm' = LoadedBPM(disk[path])
            /\ steps' = LoadedGrid(disk[path]).steps
            /\ notes' = LoadedGrid(disk[path]).notes
            /\ disk' = disk
            /\ message' = "Loaded"

(* The error loadMIDI returns *)
loadMIDIFails(path, ok) == ReadFails(disk[path]) /\ ~SaveSucceeds(path, ok)

(* createNewMIDI(path) *)
createNewMIDI(path, ok, n) ==
    /\ filePath' = path
    /\ bpm' = 120
    /\ cursorX' = 0
    /\ cursorY' = 0
    /\ isPlaying' = FALSE
    /\ currentStep' = 0
    /\ selectedOut' = -1
    /\ selectingPort' = FALSE
    /\ midiOuts' = n
    /\ outPort' = outPort
    /\ steps' = EmptyStepGrid
    /\ notes' = DefaultNoteGrid
    /\ disk' = DiskAfterSave(path, ok, EmptyStepGrid, DefaultNoteGrid, 120)
    /\ message' = IF SaveSucceeds(path, ok) THEN "MIDI file saved"
                  ELSE "New MIDI file created"

(***************************************************************************)
(* SpecCodec: a grid and a tempo are saved, then loaded into a fresh model *)
(***************************************************************************)
Cells == Channels \X Steps

RECURSIVE CellSetsUpTo(_)
CellSetsUpTo(k) ==
    IF k = 0 THEN {{}}
    ELSE LET S == CellSetsUpTo(k - 1)
         IN S \cup {s \cup {c} : s \in S, c \in Cells}

StepsOf(A) == [ch \in Channels |-> [st \in Steps |-> <<ch, st>> \in A]]

(* The grid of TestMIDILoadingSavingWithPerStepNotes *)
TestActive == {<<0, 0>>, <<0, 4>>, <<0, 8>>, <<0, 12>>,
               <<1, 2>>, <<1, 6>>, <<1, 10>>, <<1, 14>>}

TestNotes ==
    [ch \in Channels |-> [st \in Steps |->
        CASE <<ch, st>> = <<0, 4>> -> 64 [] <<ch, st>> = <<0, 8>> -> 67
          [] <<ch, st>> = <<0, 12>> -> 72 [] <<ch, st>> = <<1, 6>> -> 65
          [] <<ch, st>> = <<1, 10>> -> 69 [] <<ch, st>> = <<1, 14>> -> 74
          [] OTHER -> defaultNotes[ch]]]

(* Every cell a different note, 0 and 127 included *)
RampNotes ==
    [ch \in Channels |-> [st \in Steps |->
        IF ch = 3 /\ st = 15 THEN 127 ELSE 2 * (16 * ch + st)]]

CodecInputs ==
    {[steps |-> StepsOf(A), notes |-> n, bpm |-> 120] :
        A \in CellSetsUpTo(MaxActive), n \in {DefaultNoteGrid, RampNotes}}
    \cup {[steps |-> StepsOf(A), notes |-> n, bpm |-> b] :
        A \in {TestActive, Cells}, n \in {TestNotes, RampNotes},
        b \in {20, 35, 120, 295, 300}}
    \cup {[steps |-> StepsOf(TestActive), notes |-> TestNotes, bpm |-> b] :
        b \in 20 .. 300}

NoVoices == <<>>

Threads == {"audio", "midi", "ui"}

NoCall == [pc |-> "idle", op |-> [name |-> "none"], left |-> 0]

(* The file browser of a program started in an empty root directory *)
NoBrowser ==
    /\ fb = [currentDir |-> "/", files |-> <<>>, cursor |-> 0,
             viewportTop |-> 0, message |-> ""]
    /\ height = 0
    /\ fs = [dir \in {"/"} |-> 0]

(* Most MIDI files in one directory *)
MaxFiles == 6

(* newVirtualModel: no resource yet, volume 0.5 (in tenths); cl is the    *)
(* position of cleanup, silenced whether AllNotesOff was invoked since    *)
(* cleanup began                                                          *)
NoSession ==
    [pc |-> "init", cl |-> "none", result |-> "none", synth |-> "nil",
     driver |-> "nil", inPort |-> "nil", stopFunc |-> "nil", volume |-> 5,
     err |-> FALSE, silenced |-> FALSE]

(* newVirtualModel: activeNotes is an empty map, nothing received yet.     *)
(* access holds the <<thread, "r" or "w">> accesses to activeNotes in      *)
(* progress, queue the messages posted with program.Send                   *)
NoUI ==
    [build |-> "direct", activeNotes |-> {}, messageCount |-> 0,
     lastMessage |-> "", access |-> {}, queue |-> <<>>, crashed |-> FALSE]

(* No call in progress on the new Synth *)
NoCalls ==
    /\ session = NoSession
    /\ ui = NoUI
    /\ mu = "none"
    /\ thr = [t \in Threads |-> NoCall]
    /\ serial = [voices |-> NoVoices, masterVolume |-> 30000]
    /\ rendered = 0

IdleSynth ==
    /\ voices = NoVoices
    /\ masterVolume = 30000
    /\ lastOp = [op |-> "NewSynth"]
    /\ nOps = 0
    /\ NoCalls

InitCodec ==
    /\ \E in \in CodecInputs :
          /\ steps = in.steps
          /\ notes = in.notes
          /\ bpm = in.bpm
    /\ mode = "sequencer"
    /\ filePath = "song.mid"
    /\ cursorX = 0
    /\ cursorY = 0
    /\ isPlaying = FALSE
    /\ currentStep = 0
    /\ message = ""
    /\ selectedOut = -1
    /\ selectingPort = FALSE
    /\ outPort = -1
    /\ midiOuts = 0
    /\ disk = [p \in Paths |-> NoFile]
    /\ ticks = <<>>
    /\ sent = <<>>
    /\ sounding = {}
    /\ event = [kind |-> "init"]
    /\ nKeys = 0
    /\ pc = "edit"
    /\ NoBrowser
    /\ saved = [steps |-> steps, notes |-> notes, bpm |-> bpm]
    /\ IdleSynth

(* s.saveMIDI() on the model under test *)
CodecSave ==
    /\ pc = "edit"
    /\ \E ok \in BOOLEAN :
          /\ disk' = DiskAfterSave(filePath, ok, steps, notes, bpm)
          /\ message' = IF SaveSucceeds(filePath, ok) THEN "MIDI file saved"
                        ELSE message
          /\ pc' = IF SaveSucceeds(filePath, ok) THEN "saved" ELSE "saveFailed"
    /\ saved' = [steps |-> steps, notes |-> notes, bpm |-> bpm]
    /\ event' = [kind |-> "save"]
    /\ UNCHANGED <<mode, filePath, bpm, steps, notes, cursorX, cursorY,
                   isPlaying, currentStep, selectedOut, selectingPort,
                   outPort, midiOuts, ticks, sent, sounding, nKeys>>
    /\ UNCHANGED <<synthVars, browserVars>>

(* s2 := &sequencerModel{}; s2.loadMIDI(path) *)
CodecLoad ==
    /\ pc \in {"saved", "saveFailed"}
    /\ \E ok \in BOOLEAN : loadMIDI(filePath, ok, 0)
    /\ pc' = IF pc = "saved" THEN "loaded" ELSE "loadedDefault"
    /\ event' = [kind |-> "load"]
    /\ UNCHANGED <<mode, ticks, sent, sounding, nKeys, saved>>
    /\ UNCHANGED <<synthVars, browserVars>>

NextCodec == CodecSave \/ CodecLoad

SpecCodec == InitCodec /\ [][NextCodec]_vars

(***************************************************************************)
(* Round trip of the codec (C1, C2, C3)                                    *)
(***************************************************************************)

(* C1 as stated: after saveMIDI and loadMIDI into a fresh model every one  *)
(* of the 64 cells, inactive cells included, has the active flag and the   *)
(* note it had before saving.                                              *)
C1_AllCellsKeepFlagAndNote ==
    pc = "loaded" =>
        \A ch \in Channels, st \in Steps :
            /\ steps[ch][st] = saved.steps[ch][st]
            /\ notes[ch][st] = saved.notes[ch][st]

(* C1 amended: after saveMIDI and loadMIDI into a fresh model every cell   *)
(* has the active flag it had; an active cell has the note it had; an      *)
(* inactive cell has the default note of its channel (60/62/64/65),        *)
(* whatever note it held when saved.                                       *)
C1_RoundTripActiveNotesInactiveDefault ==
    pc = "loaded" =>
        \A ch \in Channels, st \in Steps :
            /\ steps[ch][st] = saved.steps[ch][st]
            /\ notes[ch][st] = IF saved.steps[ch][st]
                               THEN saved.notes[ch][st]
                               ELSE defaultNotes[ch]

(* C1 witness: a loaded grid that was saved with an active cell and with   *)
(* an inactive cell holding a note other than its channel's default.       *)
C1_Witness ==
    /\ pc = "loaded"
    /\ \E ch \in Channels, st \in Steps : saved.steps[ch][st]
    /\ \E ch \in Channels, st \in Steps :
          ~saved.steps[ch][st] /\ saved.notes[ch][st] # defaultNotes[ch]

(* C2: for every bpm in 20..300, saveMIDI followed by loadMIDI yields the  *)
(* same integer bpm.                                                       *)
C2_TempoRoundTrip ==
    pc = "loaded" => (saved.bpm \in 20 .. 300 /\ bpm = saved.bpm)

(* C2 witness: a tempo that does not divide 60000000 was saved and loaded. *)
C2_Witness ==
    /\ pc = "loaded"
    /\ saved.bpm = 295
    /\ 60000000 % saved.bpm # 0
    /\ bpm = 295

(* C3: after saveMIDI and loadMIDI every cell active at save time is       *)
(* active with the same note and every cell inactive at save time is       *)
(* inactive.                                                               *)
C3_ActiveCellsRoundTrip ==
    pc = "loaded" =>
        \A ch \in Channels, st \in Steps :
            IF saved.steps[ch][st]
            THEN steps[ch][st] /\ notes[ch][st] = saved.notes[ch][st]
            ELSE ~steps[ch][st]

(* C3 witness: the grid of TestMIDILoadingSavingWithPerStepNotes was saved *)
(* and loaded.                                                             *)
C3_Witness ==
    /\ pc = "loaded"
    /\ saved.steps = StepsOf(TestActive)
    /\ saved.notes = TestNotes
    /\ steps[1][14] /\ notes[1][14] = 74

(***************************************************************************)
(* The synthesizer's voice pool (src/internal/audio/synth.go)              *)
(*                                                                         *)
(* float64 fields are kept in fixed point: envelope and master volume in   *)
(* units of 1/EnvOne, frequency in 1/100 Hz, phase in 1/PhaseOne cycles.   *)
(***************************************************************************)
EnvOne == 100000

(* v.envelope += 0.001 *)
AttackStep == EnvOne \div 1000

(* v.envelope < 0.001 *)
FloorNeverReached == 0 - EnvOne

ReleaseFloor == EnvOne \div 1000

(* v.envelope *= 0.9995 *)
DecayNone(env) == env

Decay(env) == (env * 9995) \div 10000

PhaseOne == sampleRate * 100

(* 440 * 2^(k/12) for k = 0..11, in 1/100 Hz *)
SemitoneTable == <<44000, 46616, 49388, 52325, 55437, 58733,
                   62225, 65926, 69846, 73999, 78399, 83061>>

RECURSIVE Pow2(_)
Pow2(k) == IF k <= 0 THEN 1 ELSE 2 * Pow2(k - 1)

(* midiNoteToFreq: 440.0 * 2^((note - 69) / 12) *)
midiNoteToFreq(note) ==
    LET octave == (note - 69) \div 12
        base   == SemitoneTable[((note - 69) % 12) + 1]
    IN IF octave >= 0 THEN base * Pow2(octave)
       ELSE base \div Pow2(0 - octave)

(* The first voice of the range-loop that is not active (0: none) *)
NoInactive(vs) == 0

FirstInactive(vs) ==
    IF \E i \in DOMAIN vs : ~vs[i].active
    THEN CHOOSE i \in DOMAIN vs :
            ~vs[i].active /\ \A j \in DOMAIN vs : ~vs[j].active => i <= j
    ELSE 0

(* voice = s.voices[0] ("steal oldest voice"), sequences counting from 1 *)
StealLast(vs) == Len(vs)

StealSlot(vs) == 1

(* The fields NoteOn writes into the chosen voice *)
StartedVoice(channel, note, velocity) ==
    [note |-> note, channel |-> channel, velocity |-> velocity,
     frequency |-> midiNoteToFreq(note), phase |-> 0, envelope |-> 0,
     releasing |-> FALSE, active |-> TRUE]

(* The condition of the loop in noteOffLocked *)
MatchesAnyNote(v, channel, note) ==
    v.active /\ v.channel = channel /\ ~v.releasing

MatchesIgnoringReleasing(v, channel, note) ==
    v.active /\ v.note = note /\ v.channel = channel

Matches(v, channel, note) ==
    v.active /\ v.note = note /\ v.channel = channel /\ ~v.releasing

(* The first voice matched by noteOffLocked (0: none) *)
LastMatch(vs, channel, note) ==
    IF \E i \in DOMAIN vs : Matches(vs[i], channel, note)
    THEN CHOOSE i \in DOMAIN vs :
            /\ Matches(vs[i], channel, note)
            /\ \A j \in DOMAIN vs : Matches(vs[j], channel, note) => j <= i
    ELSE 0

FirstMatch(vs, channel, note) ==
    IF \E i \in DOMAIN vs : Matches(vs[i], channel, note)
    THEN CHOOSE i \in DOMAIN vs :
            /\ Matches(vs[i], channel, note)
            /\ \A j \in DOMAIN vs : Matches(vs[j], channel, note) => i <= j
    ELSE 0

(* noteOffLocked(channel, note) *)
noteOffLocked(vs, channel, note) ==
    LET i == FirstMatch(vs, channel, note)
    IN IF i = 0 THEN vs ELSE [vs EXCEPT ![i].releasing = TRUE]

NoteOnIgnoringVelocity(vs, channel, note, velocity) ==
    LET free == FirstInactive(vs)
    IN IF free # 0
       THEN [vs EXCEPT ![free] = StartedVoice(channel, note, velocity)]
       ELSE IF Len(vs) < maxVoices
            THEN Append(vs, StartedVoice(channel, note, velocity))
            ELSE [vs EXCEPT ![StealSlot(vs)] =
                               StartedVoice(channel, note, velocity)]

NoteOnAlwaysAppends(vs, channel, note, velocity) ==
    IF velocity = 0 THEN noteOffLocked(vs, channel, note)
    ELSE Append(vs, StartedVoice(channel, note, velocity))

(* NoteOn(channel, note, velocity): the voices afterwards *)
NoteOnVoices(vs, channel, note, velocity) ==
    IF velocity = 0 THEN noteOffLocked(vs, channel, note)
    ELSE LET free == FirstInactive(vs)
         IN IF free # 0
            THEN [vs EXCEPT ![free] = StartedVoice(channel, note, velocity)]
            ELSE IF Len(vs) < maxVoices
                 THEN Append(vs, StartedVoice(channel, note, velocity))
                 ELSE [vs EXCEPT ![StealSlot(vs)] =
                                    StartedVoice(channel, note, velocity)]

AllNotesOffChannelZero(vs) ==
    [i \in DOMAIN vs |->
        IF vs[i].active /\ vs[i].channel = 0
        THEN [vs[i] EXCEPT !.releasing = TRUE] ELSE vs[i]]

(* AllNotesOff *)
AllNotesOffVoices(vs) ==
    [i \in DOMAIN vs |->
        IF vs[i].active THEN [vs[i] EXCEPT !.releasing = TRUE] ELSE vs[i]]

(* SetVolume: clamp to [0, 1] *)
ClampVolume(vol) == IF vol < 0 THEN 0 ELSE IF vol > EnvOne THEN EnvOne ELSE vol

(* One output frame's effect on one voice in synthReader.Read *)
FrameVoice(v) ==
    IF ~v.active THEN v
    ELSE LET ph  == v.phase + v.frequency
             ph2 == IF ph >= PhaseOne THEN ph - PhaseOne ELSE ph
         IN IF v.releasing
            THEN LET e == Decay(v.envelope)
                 IN [v EXCEPT !.phase = ph2, !.envelope = e,
                              !.active = ~(e < ReleaseFloor)]
            ELSE IF v.envelope < EnvOne
                 THEN LET e == v.envelope + AttackStep
                      IN [v EXCEPT !.phase = ph2,
                                   !.envelope = IF e > EnvOne THEN EnvOne
                                                ELSE e]
                 ELSE [v EXCEPT !.phase = ph2]

(* numSamples frames of synthReader.Read *)
RECURSIVE RenderVoices(_, _)
RenderVoices(vs, frames) ==
    IF frames = 0 THEN vs
    ELSE RenderVoices([i \in DOMAIN vs |-> FrameVoice(vs[i])], frames - 1)

(* Inputs of the control operations *)
SynthChannels == {0, 1}

SynthNotes == {60, 61}

SynthVelocities == {0, 100}

SynthVolumes == {0 - 50000, 50000, 150000}

(* The pool after n NoteOn calls on a fresh synth, nothing rendered yet *)
PoolAfter(n) ==
    [i \in 1 .. n |-> StartedVoice(i % 2, 60 + (i % 3), 100)]

InitPoolSizes == {0, 1, maxVoices - 1, maxVoices}

IdleSequencer ==
    /\ mode = "fileBrowser"
    /\ filePath = ""
    /\ bpm = 0
    /\ steps = EmptyStepGrid
    /\ notes = [ch \in Channels |-> [st \in Steps |-> 0]]
    /\ cursorX = 0
    /\ cursorY = 0
    /\ isPlaying = FALSE
    /\ currentStep = 0
    /\ message = ""
    /\ selectedOut = 0
    /\ selectingPort = FALSE
    /\ outPort = -1
    /\ midiOuts = 0
    /\ disk = [p \in Paths |-> NoFile]
    /\ ticks = <<>>
    /\ sent = <<>>
    /\ sounding = {}
    /\ event = [kind |-> "init"]
    /\ nKeys = 0
    /\ pc = "idle"
    /\ NoBrowser
    /\ saved = [steps |-> steps, notes |-> notes, bpm |-> bpm]

InitSynth ==
    /\ \E n \in InitPoolSizes : voices = PoolAfter(n)
    /\ masterVolume = 30000
    /\ lastOp = [op |-> "NewSynth"]
    /\ nOps = 0
    /\ NoCalls
    /\ IdleSequencer

OpTag(o) == IF o.op \in {"NoteOn", "NoteOff"}
            THEN <<o.op, o.channel, o.note, o.velocity>>
            ELSE <<o.op>>

SynthStep(op) ==
    /\ nOps < MaxOps
    /\ nOps' = nOps + 1
    /\ lastOp' = [op EXCEPT !.pre = voices, !.prev = OpTag(lastOp)]
    /\ UNCHANGED <<seqVars, envVars, codecVars, browserVars, callVars>>

NoteOn ==
    \E channel \in SynthChannels, note \in SynthNotes,
       velocity \in SynthVelocities :
        /\ voices' = NoteOnVoices(voices, channel, note, velocity)
        /\ UNCHANGED masterVolume
        /\ SynthStep([op |-> "NoteOn", channel |-> channel, note |-> note,
                      velocity |-> velocity, pre |-> <<>>, prev |-> <<>>])

NoteOff ==
    \E channel \in SynthChannels, note \in SynthNotes :
        /\ voices' = noteOffLocked(voices, channel, note)
        /\ UNCHANGED masterVolume
        /\ SynthStep([op |-> "NoteOff", channel |-> channel, note |-> note,
                      velocity |-> 0, pre |-> <<>>, prev |-> <<>>])

AllNotesOff ==
    /\ voices' = AllNotesOffVoices(voices)
    /\ UNCHANGED masterVolume
    /\ SynthStep([op |-> "AllNotesOff", pre |-> <<>>, prev |-> <<>>])

SetVolume ==
    \E vol \in SynthVolumes :
        /\ masterVolume' = ClampVolume(vol)
        /\ UNCHANGED voices
        /\ SynthStep([op |-> "SetVolume", vol |-> vol, pre |-> <<>>,
                      prev |-> <<>>])

Render ==
    \E frames \in 1 .. MaxFrames :
        /\ voices' = RenderVoices(voices, frames)
        /\ UNCHANGED masterVolume
        /\ SynthStep([op |-> "Render", frames |-> frames, pre |-> <<>>,
                      prev |-> <<>>])

NextSynth == NoteOn \/ NoteOff \/ AllNotesOff \/ SetVolume \/ Render

SpecSynth == InitSynth /\ [][NextSynth]_vars

(***************************************************************************)
(* Voice pool claims (C8, C9, C10)                                         *)
(***************************************************************************)

(* lastOp is a NoteOff made directly after a NoteOff of the same key *)
SecondNoteOff ==
    /\ lastOp.op = "NoteOff"
    /\ lastOp.prev = <<"NoteOff", lastOp.channel, lastOp.note, 0>>

(* v sounds the key of lastOp: active, not releasing, same channel, note *)
SoundsKey(v) ==
    /\ v.active
    /\ ~v.releasing
    /\ v.channel = lastOp.channel
    /\ v.note = lastOp.note

(* C8 as stated: a second NoteOff(ch, n) directly after a first leaves the *)
(* pool exactly as the first call left it.                                 *)
C8_SecondNoteOffNoChange ==
    SecondNoteOff => voices = lastOp.pre

(* C8 amended: a second NoteOff(ch, n) directly after a first leaves the   *)
(* pool as the first call left it unless another active, non-releasing     *)
(* voice with the same (ch, n) remains after the first call; then it sets  *)
(* releasing on the lowest-index such voice and changes nothing else.      *)
C8_SecondNoteOffReleasesNextOrNothing ==
    SecondNoteOff =>
        LET pre == lastOp.pre
        IN IF \A i \in DOMAIN pre : ~SoundsKey(pre[i])
           THEN voices = pre
           ELSE \E i \in DOMAIN pre :
                   /\ SoundsKey(pre[i])
                   /\ \A j \in 1 .. (i - 1) : ~SoundsKey(pre[j])
                   /\ voices = [pre EXCEPT ![i].releasing = TRUE]

(* C8 witness: a second NoteOff of a key that two voices were sounding     *)
(* released a further voice.                                               *)
C8_Witness ==
    /\ SecondNoteOff
    /\ voices # lastOp.pre
    /\ \E i \in DOMAIN voices :
          voices[i].releasing /\ ~lastOp.pre[i].releasing

(* lastOp is a NoteOn with velocity > 0 *)
SoundingNoteOn == lastOp.op = "NoteOn" /\ lastOp.velocity > 0

C10_DistinctNoteOnAppends ==
    ( /\ SoundingNoteOn
      /\ Len(lastOp.pre) < 64
      /\ \A i \in DOMAIN lastOp.pre :
            <<lastOp.pre[i].channel, lastOp.pre[i].note>>
                # <<lastOp.channel, lastOp.note>> )
    => /\ Len(voices) = Len(lastOp.pre) + 1
       /\ \A i \in DOMAIN lastOp.pre : voices[i] = lastOp.pre[i]

(* C10 amended: a NoteOn (velocity > 0) made while the pool has fewer than *)
(* 64 slots appends a new slot, leaving the others alone, when every       *)
(* existing slot is active; when some slot is inactive it reuses an        *)
(* inactive slot and the pool does not grow.                               *)
C10_AppendsOnlyWhenAllActive ==
    (SoundingNoteOn /\ Len(lastOp.pre) < 64) =>
        IF \A i \in DOMAIN lastOp.pre : lastOp.pre[i].active
        THEN /\ Len(voices) = Len(lastOp.pre) + 1
             /\ \A i \in DOMAIN lastOp.pre : voices[i] = lastOp.pre[i]
        ELSE /\ Len(voices) = Len(lastOp.pre)
             /\ \E i \in DOMAIN lastOp.pre :
                   ~lastOp.pre[i].active /\ voices[i].active

(* C10 witness: a NoteOn on a pair no slot held, with fewer than 64 slots, *)
(* reused the slot of a voice Render had deactivated.                      *)
C10_Witness ==
    /\ SoundingNoteOn
    /\ Len(lastOp.pre) < 64
    /\ \E i \in DOMAIN lastOp.pre : ~lastOp.pre[i].active
    /\ \A i \in DOMAIN lastOp.pre :
          <<lastOp.pre[i].channel, lastOp.pre[i].note>>
              # <<lastOp.channel, lastOp.note>>
    /\ Len(voices) = Len(lastOp.pre)

(* The voices of vs that sound (channel, note): active and not releasing *)
SoundingSlots(vs, channel, note) ==
    {i \in DOMAIN vs : /\ vs[i].active /\ ~vs[i].releasing
                       /\ vs[i].channel = channel /\ vs[i].note = note}

(* vs with releasing set on the lowest slot of S, unchanged when S is empty *)
ReleaseLowest(vs, S) ==
    IF S = {} THEN vs
    ELSE LET i == CHOOSE k \in S : \A j \in S : k <= j
         IN [k \in DOMAIN vs |->
               IF k = i THEN [vs[k] EXCEPT !.releasing = TRUE] ELSE vs[k]]

(* C11: from any pool state NoteOn(ch, n, 0) leaves the pool exactly as    *)
(* NoteOff(ch, n) would: no slot is allocated and the same voice (or none) *)
(* is released.                                                            *)
C11_NoteOnZeroIsNoteOff ==
    [][lastOp'.op = "NoteOn" /\ lastOp'.velocity = 0 =>
         /\ voices' = noteOffLocked(voices, lastOp'.channel, lastOp'.note)
         /\ voices' = ReleaseLowest(voices,
                         SoundingSlots(voices, lastOp'.channel, lastOp'.note))
         /\ Len(voices') = Len(voices)
         /\ masterVolume' = masterVolume]_vars

(* NoteOn with velocity 0 released a sounding voice *)
C11_Witness ==
    /\ lastOp.op = "NoteOn" /\ lastOp.velocity = 0
    /\ \E i \in DOMAIN voices :
          /\ voices[i].releasing /\ ~lastOp.pre[i].releasing
          /\ voices[i].velocity = 100
    /\ Len(voices) = Len(lastOp.pre)

(* C12: NoteOff(channel, note) sets releasing on exactly the lowest-index  *)
(* voice that is active, not releasing and has that channel and note, and  *)
(* changes nothing else (other voices, pool size, master volume); with no  *)
(* such voice the pool is unchanged.                                       *)
C12_NoteOffReleasesLowestMatch ==
    [][lastOp'.op = "NoteOff" =>
         /\ voices' = ReleaseLowest(voices,
                         SoundingSlots(voices, lastOp'.channel, lastOp'.note))
         /\ masterVolume' = masterVolume]_vars

(* NoteOff found two sounding voices of its key and released the lower one *)
C12_Witness ==
    /\ lastOp.op = "NoteOff"
    /\ \E i, j \in DOMAIN voices :
          /\ i < j
          /\ {i, j} \subseteq SoundingSlots(lastOp.pre, lastOp.channel,
                                            lastOp.note)
          /\ voices[i].releasing /\ ~voices[j].releasing

(* C13: after any sequence of NoteOn, NoteOff, AllNotesOff, SetVolume and  *)
(* Render calls the number of voice slots never exceeds 64 and never       *)
(* decreases.                                                              *)
C13_PoolSizeBoundedMonotone ==
    /\ [](Len(voices) <= 64)
    /\ [][Len(voices') >= Len(voices)]_vars

(* NoteOn on a full pool of 64 active voices *)
C13_Witness ==
    /\ lastOp.op = "NoteOn" /\ lastOp.velocity > 0
    /\ Len(lastOp.pre) = 64
    /\ \A i \in DOMAIN lastOp.pre : lastOp.pre[i].active
    /\ Len(voices) = 64

(* C17: AllNotesOff sets releasing on every active voice, whatever its     *)
(* channel, and leaves inactive voices, the pool size and the master       *)
(* volume unchanged.                                                       *)
C17_AllNotesOffReleasesActive ==
    [][lastOp'.op = "AllNotesOff" =>
         /\ Len(voices') = Len(voices)
         /\ \A i \in DOMAIN voices :
               IF voices[i].active
               THEN voices'[i] = [voices[i] EXCEPT !.releasing = TRUE]
               ELSE voices'[i] = voices[i]
         /\ masterVolume' = masterVolume]_vars

(* AllNotesOff on a pool holding an inactive voice and sounding voices of  *)
(* both channels                                                           *)
C17_Witness ==
    /\ lastOp.op = "AllNotesOff"
    /\ \E i \in DOMAIN voices :
          ~voices[i].active /\ voices[i] = lastOp.pre[i]
    /\ \E i, j \in DOMAIN voices :
          /\ voices[i].channel # voices[j].channel
          /\ ~lastOp.pre[i].releasing /\ voices[i].releasing
          /\ ~lastOp.pre[j].releasing /\ voices[j].releasing

(***************************************************************************)
(* SpecLock: the audio thread, the MIDI-input callback and the UI thread   *)
(* call into one Synth; every method starts with s.mu.Lock() and defers    *)
(* s.mu.Unlock()                                                           *)
(***************************************************************************)

Call(name, channel, note, velocity, vol, frames) ==
    [name |-> name, channel |-> channel, note |-> note,
     velocity |-> velocity, vol |-> vol, frames |-> frames]

(* The calls each thread makes *)
CallsOf(t) ==
    CASE t = "audio" ->
           {Call("Read", 0, 0, 0, 0, f) : f \in 1 .. MaxFrames}
      [] t = "midi" ->
           {Call("NoteOn", c, n, v, 0, 0) :
               c \in SynthChannels, n \in SynthNotes, v \in SynthVelocities}
           \cup {Call("NoteOff", c, n, 0, 0, 0) :
               c \in SynthChannels, n \in SynthNotes}
      [] OTHER ->
           {Call("SetVolume", 0, 0, 0, v, 0) : v \in SynthVolumes}
           \cup {Call("AllNotesOff", 0, 0, 0, 0, 0)}

(* What a whole call does to the pool when nothing else runs *)
Whole(st, op) ==
    CASE op.name = "Read" ->
           [st EXCEPT !.voices = RenderVoices(st.voices, op.frames)]
      [] op.name = "NoteOn" ->
           [st EXCEPT !.voices = NoteOnVoices(st.voices, op.channel, op.note,
                                              op.velocity)]
      [] op.name = "NoteOff" ->
           [st EXCEPT !.voices = noteOffLocked(st.voices, op.channel,
                                               op.note)]
      [] op.name = "AllNotesOff" ->
           [st EXCEPT !.voices = AllNotesOffVoices(st.voices)]
      [] OTHER -> [st EXCEPT !.masterVolume = ClampVolume(op.vol)]

LockPoolSizes == {0, 2}

InitLock ==
    /\ \E n \in LockPoolSizes : voices = PoolAfter(n)
    /\ masterVolume = 30000
    /\ lastOp = [op |-> "NewSynth"]
    /\ nOps = 0
    /\ mu = "none"
    /\ thr = [t \in Threads |-> NoCall]
    /\ serial = [voices |-> voices, masterVolume |-> masterVolume]
    /\ rendered = 0
    /\ session = NoSession
    /\ ui = NoUI
    /\ IdleSequencer

(* s.mu.Lock() returns only while no thread holds the mutex *)
MuIgnored == TRUE

MuFree == mu = "none"

(* A thread enters a method of the Synth and reaches s.mu.Lock() *)
Enter ==
    \E t \in Threads :
        /\ thr[t].pc = "idle"
        /\ nOps < MaxOps
        /\ nOps' = nOps + 1
        /\ \E op \in CallsOf(t) :
              thr' = [thr EXCEPT ![t] = [pc |-> "lock", op |-> op,
                                         left |-> op.frames]]
        /\ UNCHANGED <<voices, masterVolume, lastOp, mu, serial, rendered>>
        /\ UNCHANGED <<seqVars, envVars, codecVars, browserVars, session, ui>>

(* s.mu.Lock() *)
Lock ==
    \E t \in Threads :
        /\ thr[t].pc = "lock"
        /\ MuFree
        /\ mu' = t
        /\ thr' = [thr EXCEPT ![t].pc = "body"]
        /\ serial' = Whole(serial, thr[t].op)
        /\ UNCHANGED <<voices, masterVolume, lastOp, nOps, rendered>>
        /\ UNCHANGED <<seqVars, envVars, codecVars, browserVars, session, ui>>

(* One iteration of the sample loop of synthReader.Read *)
ReadFrame ==
    /\ thr["audio"].pc = "body"
    /\ thr["audio"].left > 0
    /\ voices' = [i \in DOMAIN voices |-> FrameVoice(voices[i])]
    /\ thr' = [thr EXCEPT !["audio"].left = @ - 1]
    /\ rendered' = rendered + 1
    /\ UNCHANGED <<masterVolume, lastOp, nOps, mu, serial>>
    /\ UNCHANGED <<seqVars, envVars, codecVars, browserVars, session, ui>>

(* The body of NoteOn, NoteOff, AllNotesOff or SetVolume *)
Control ==
    \E t \in Threads \ {"audio"} :
        /\ thr[t].pc = "body"
        /\ LET st == Whole([voices |-> voices, masterVolume |-> masterVolume],
                           thr[t].op)
           IN voices' = st.voices /\ masterVolume' = st.masterVolume
        /\ thr' = [thr EXCEPT ![t].pc = "unlock"]
        /\ UNCHANGED <<lastOp, nOps, mu, serial, rendered>>
        /\ UNCHANGED <<seqVars, envVars, codecVars, browserVars, session, ui>>

(* The deferred s.mu.Unlock() *)
Unlock ==
    \E t \in Threads :
        /\ \/ thr[t].pc = "unlock"
           \/ t = "audio" /\ thr[t].pc = "body" /\ thr[t].left = 0
        /\ mu' = "none"
        /\ thr' = [thr EXCEPT ![t] = NoCall]
        /\ UNCHANGED <<voices, masterVolume, lastOp, nOps, serial, rendered>>
        /\ UNCHANGED <<seqVars, envVars, codecVars, browserVars, session, ui>>

NextLock == Enter \/ Lock \/ ReadFrame \/ Control \/ Unlock

SpecLock == InitLock /\ [][NextLock]_vars

(* C14: Read, NoteOn, NoteOff, AllNotesOff and SetVolume called from the   *)
(* audio thread, the MIDI-input callback and the UI thread never overlap:  *)
(* a thread is inside a method body only while it holds the one Synth      *)
(* lock, Read holds it for the whole buffer so that between two of its     *)
(* frames nothing but the frame itself changes the pool, and whenever the  *)
(* lock is free the pool is the one the calls produce when run one at a    *)
(* time in the order they took the lock.                                   *)
C14_CallsSerialized ==
    /\ [](\A t \in Threads : thr[t].pc \in {"body", "unlock"} => mu = t)
    /\ [](mu = "none" =>
            serial = [voices |-> voices, masterVolume |-> masterVolume])
    /\ [][mu = "audio" /\ mu' = "audio" =>
            /\ masterVolume' = masterVolume
            /\ \/ voices' = voices
               \/ voices' = [i \in DOMAIN voices |-> FrameVoice(voices[i])]]_vars

(* The audio thread is between two frames of a buffer while the MIDI       *)
(* callback and the UI thread both wait for the lock                       *)
C14_Witness ==
    /\ mu = "audio"
    /\ thr["audio"].left = 1 /\ thr["audio"].op.frames = 2
    /\ thr["midi"].pc = "lock" /\ thr["midi"].op.name = "NoteOn"
    /\ thr["ui"].pc = "lock" /\ thr["ui"].op.name = "AllNotesOff"
    /\ Len(voices) = 2

(***************************************************************************)
(* SpecRender: synthReader.Read runs frame after frame on a sounding pool; *)
(* AllNotesOff is called once, and no NoteOn follows                       *)
(***************************************************************************)

(* A voice some frames after its NoteOn *)
VoiceAt(channel, note, envelope, releasing) ==
    [StartedVoice(channel, note, 100) EXCEPT !.envelope = envelope,
                                             !.releasing = releasing]

(* Pools the program reaches: a voice just started, a voice close to the   *)
(* end of its attack, voices at full level, a voice released before its    *)
(* first frame and a voice released early in its attack                    *)
RenderPools ==
    {<<VoiceAt(0, 60, 0, FALSE)>>,
     <<VoiceAt(0, 60, EnvOne - AttackStep \div 2, FALSE)>>,
     <<VoiceAt(0, 60, EnvOne, FALSE)>>,
     <<VoiceAt(0, 60, 0, TRUE)>>,
     <<VoiceAt(0, 60, EnvOne \div 2, FALSE), VoiceAt(1, 61, EnvOne, FALSE)>>,
     <<VoiceAt(0, 60, AttackStep, TRUE), VoiceAt(1, 61, EnvOne, FALSE)>>}

(* The weight velocity * envelope of the voices Read mixes into a sample:  *)
(* the sample is 0 when it is 0                                            *)
RECURSIVE Level(_)
Level(vs) ==
    IF vs = <<>> THEN 0
    ELSE (IF Head(vs).active THEN Head(vs).velocity * Head(vs).envelope
          ELSE 0) + Level(Tail(vs))

InitRender ==
    /\ voices \in RenderPools
    /\ masterVolume = 30000
    /\ lastOp = [op |-> "NewSynth"]
    /\ nOps = 0
    /\ NoCalls
    /\ IdleSequencer

Released == lastOp.op = "AllNotesOff"

(* One frame of synthReader.Read *)
RenderFrame ==
    /\ rendered < (IF Released THEN lastOp.at + MaxRelease ELSE MaxAttack)
    /\ rendered' = rendered + 1
    /\ voices' = RenderVoices(voices, 1)
    /\ UNCHANGED <<masterVolume, lastOp, nOps, mu, thr, serial>>
    /\ UNCHANGED <<seqVars, envVars, codecVars, browserVars, session, ui>>

(* AllNotesOff, once *)
ReleaseAll ==
    /\ ~Released
    /\ voices' = AllNotesOffVoices(voices)
    /\ lastOp' = [op |-> "AllNotesOff", at |-> rendered, pre |-> voices]
    /\ UNCHANGED <<masterVolume, nOps, mu, thr, serial, rendered>>
    /\ UNCHANGED <<seqVars, envVars, codecVars, browserVars, session, ui>>

NextRender == RenderFrame \/ ReleaseAll

(* The audio player keeps calling Read *)
SpecRender == InitRender /\ [][NextRender]_vars /\ WF_vars(RenderFrame)

(* The frames 0.9995^k takes to bring an envelope of 1.0 below 0.001 *)
SilenceFrames == 13813

Silent(vs) == \A i \in DOMAIN vs : ~vs[i].active

(* C15: after AllNotesOff with no further NoteOn, repeated Read calls      *)
(* deactivate every voice within a bounded number of frames (13813, the    *)
(* release of a voice at full level), and from then on every frame mixes   *)
(* no voice, so that only zero samples are output.                         *)
C15_ReleaseEndsInSilence ==
    /\ [](Released /\ rendered - lastOp.at >= SilenceFrames =>
            Silent(voices) /\ Level(voices) = 0)
    /\ [][Released /\ Silent(voices) =>
            Silent(voices') /\ Level(voices') = 0]_vars
    /\ (Released ~> Silent(voices))

(* Two voices, one of them at full level when AllNotesOff came, are both   *)
(* inactive                                                                *)
C15_Witness ==
    /\ Released /\ Silent(voices)
    /\ Len(voices) = 2
    /\ \A i \in DOMAIN lastOp.pre : lastOp.pre[i].active
    /\ lastOp.pre[2].envelope = EnvOne /\ ~lastOp.pre[2].releasing
    /\ rendered - lastOp.at < SilenceFrames

(* C16 as stated: in every frame the envelope of an active non-releasing   *)
(* voice below 1.0 strictly increases and never exceeds 1.0, and the       *)
(* envelope of every releasing voice strictly decreases, the voice         *)
(* becoming inactive as soon as it is below 0.001.                         *)
C16_ReleaseStrictlyDecreases ==
    [][rendered' # rendered =>
         \A i \in DOMAIN voices :
            voices[i].active =>
               IF voices[i].releasing
               THEN /\ voices'[i].envelope < voices[i].envelope
                    /\ voices'[i].active
                          = ~(voices'[i].envelope < EnvOne \div 1000)
               ELSE /\ \/ voices'[i].envelope > voices[i].envelope
                       \/ voices[i].envelope = EnvOne
                    /\ voices'[i].envelope <= EnvOne]_vars

(* C16: in every frame the envelope of an active non-releasing voice       *)
(* strictly increases while it is below 1.0, never exceeds 1.0 and stays   *)
(* at 1.0 once there; the envelope of a releasing voice strictly decreases *)
(* while it is positive and stays 0 when the voice was released at 0; a    *)
(* releasing voice becomes inactive in the first frame that leaves its     *)
(* envelope below 0.001, and a frame changes no inactive voice.            *)
C16_EnvelopeMonotone ==
    [][rendered' # rendered =>
         /\ Len(voices') = Len(voices)
         /\ \A i \in DOMAIN voices :
               IF ~voices[i].active THEN voices'[i] = voices[i]
               ELSE IF voices[i].releasing
               THEN /\ voices[i].envelope > 0 =>
                          voices'[i].envelope < voices[i].envelope
                    /\ voices[i].envelope = 0 => voices'[i].envelope = 0
                    /\ voices'[i].releasing
                    /\ voices'[i].active
                          = ~(voices'[i].envelope < EnvOne \div 1000)
               ELSE /\ voices[i].envelope < EnvOne =>
                          voices'[i].envelope > voices[i].envelope
                    /\ voices[i].envelope = EnvOne =>
                          voices'[i].envelope = EnvOne
                    /\ voices'[i].envelope <= EnvOne
                    /\ voices'[i].active /\ ~voices'[i].releasing]_vars

(* The first frame left a voice that was released before it at envelope   *)
(* 0 and deactivated it                                                    *)
C16_Witness ==
    /\ rendered = 1 /\ ~Released
    /\ Len(voices) = 1
    /\ voices[1].releasing /\ ~voices[1].active
    /\ voices[1].envelope = 0

(***************************************************************************)
(* Spec: the sequencer application (model.Update, updateSequencer,         *)
(* updateFileBrowser) driven by key presses and timer ticks                *)
(***************************************************************************)

(* The file found at song.mid when the program starts *)
PatternActive == {<<0, 0>>, <<0, 1>>, <<1, 1>>, <<1, 2>>, <<2, 15>>,
                  <<3, 0>>, <<3, 15>>}

StartFiles == {EncodeSMF(StepsOf(PatternActive), RampNotes, 120)}

(* initialModel(): file browser mode, sequencerModel{} *)
Init ==
    /\ mode = "fileBrowser"
    /\ filePath = ""
    /\ bpm = 0
    /\ steps = EmptyStepGrid
    /\ notes = [ch \in Channels |-> [st \in Steps |-> 0]]
    /\ cursorX = 0
    /\ cursorY = 0
    /\ isPlaying = FALSE
    /\ currentStep = 0
    /\ message = ""
    /\ selectedOut = 0
    /\ selectingPort = FALSE
    /\ outPort = -1
    /\ midiOuts = 0
    /\ \E f \in StartFiles :
          disk = [p \in Paths |-> IF p = "song.mid" THEN f ELSE NoFile]
    /\ ticks = <<>>
    /\ sent = <<>>
    /\ sounding = {}
    /\ event = [kind |-> "init"]
    /\ nKeys = 0
    /\ pc = "run"
    /\ NoBrowser
    /\ saved = [steps |-> steps, notes |-> notes, bpm |-> bpm]
    /\ IdleSynth

(* Nothing is handed to sendFunc in this step *)
Quiet == sent' = <<>> /\ sounding' = sounding

(* sendNoteOn / sendNoteOff / sendAllNotesOff: msgs reach sendFunc when a  *)
(* port is open (s.sendFunc != nil)                                        *)
Send(msgs) ==
    /\ sent' = IF outPort # -1 THEN msgs ELSE <<>>
    /\ sounding' = Deliver(sounding, sent')

(* closePort: all notes off on the open port, then the port is closed *)
closePort ==
    /\ sent' = IF outPort # -1 THEN AllNotesOffMsgs ELSE <<>>
    /\ sounding' = {}
    /\ outPort' = -1

(* refreshMIDIPorts, n ports listed by the system *)
refreshMIDIPorts(n) ==
    /\ midiOuts' = n
    /\ IF selectedOut >= n
       THEN selectedOut' = -1 /\ closePort
       ELSE UNCHANGED <<selectedOut, outPort>> /\ Quiet

(* The interval of a quarter note instead of a sixteenth *)
tickPerQuarterNote(b) == 60000 \div b

(* tickWithBPM: stepIntervalMs := 60000 / bpm / 4 *)
tickWithBPM(b) == (60000 \div b) \div 4

(* tick(): a fixed 60 ms timer *)
tick == 60

Timer(ms) == [interval |-> ms, stale |-> FALSE]

(* Every timer in flight when playback stops predates that stop *)
MarkStale(ts) == [i \in DOMAIN ts |-> [ts[i] EXCEPT !.stale = TRUE]]

RemoveAt(sq, i) == SubSeq(sq, 1, i - 1) \o SubSeq(sq, i + 1, Len(sq))

(* m.sequencer.currentStep = (m.sequencer.currentStep + 1) % numSteps *)
NextStepByTwo(cs) == (cs + 2) % numSteps

NextStep(cs) == (cs + 1) % numSteps

(* The loops over channels of the tick handler *)
RECURSIVE NoteOffsAt(_, _)
NoteOffsAt(st, ch) ==
    IF ch >= numChannels THEN <<>>
    ELSE (IF steps[ch][st]
          THEN <<[kind |-> "NoteOff", channel |-> ch, key |-> notes[ch][st],
                  velocity |-> 0]>>
          ELSE <<>>) \o NoteOffsAt(st, ch + 1)

RECURSIVE NoteOnsAt(_, _)
NoteOnsAt(st, ch) ==
    IF ch >= numChannels THEN <<>>
    ELSE (IF steps[ch][st]
          THEN <<[kind |-> "NoteOn", channel |-> ch, key |-> notes[ch][st],
                  velocity |-> 100]>>
          ELSE <<>>) \o NoteOnsAt(st, ch + 1)

Budgeted == nKeys < MaxKeys /\ nKeys' = nKeys + 1

Key(k) == event' = [kind |-> "key", key |-> k]

InSequencer == mode = "sequencer" /\ ~selectingPort

InPortSelection == mode = "sequencer" /\ selectingPort

(* s.saveMIDI() after a command; on failure the message reports it *)
SaveAfter(stp, nts, b) ==
    \E ok \in BOOLEAN :
        /\ disk' = DiskAfterSave(filePath, ok, stp, nts, b)
        /\ message' = IF SaveSucceeds(filePath, ok) THEN "MIDI file saved"
                      ELSE "Error saving"

(* case tickMsg of model.Update: one timer in flight fires *)
Tick ==
    /\ mode # "quit"
    /\ \E i \in DOMAIN ticks :
          /\ event' = [kind |-> "tick", stale |-> ticks[i].stale,
                       played |-> isPlaying]
          /\ IF isPlaying
             THEN /\ currentStep' = NextStep(currentStep)
                  /\ Send(NoteOffsAt(currentStep, 0)
                          \o NoteOnsAt(currentStep', 0))
                  /\ ticks' = Append(RemoveAt(ticks, i), Timer(tick))
             ELSE /\ UNCHANGED currentStep
                  /\ Quiet
                  /\ ticks' = RemoveAt(ticks, i)
    /\ UNCHANGED <<mode, filePath, bpm, steps, notes, cursorX, cursorY,
                   isPlaying, message, selectedOut, selectingPort, outPort,
                   midiOuts, disk, nKeys>>
    /\ UNCHANGED <<codecVars, synthVars, browserVars>>

(* Keys that move the cursor *)
KeyLeft ==
    /\ InSequencer /\ Budgeted /\ Key("left")
    /\ cursorX' = IF cursorX > 0 THEN cursorX - 1 ELSE cursorX
    /\ Quiet
    /\ UNCHANGED <<mode, filePath, bpm, steps, notes, cursorY, isPlaying,
                   currentStep, message, selectedOut, selectingPort, outPort,
                   midiOuts, disk, ticks>>
    /\ UNCHANGED <<codecVars, synthVars, browserVars>>

KeyRight ==
    /\ InSequencer /\ Budgeted /\ Key("right")
    /\ cursorX' = IF cursorX < numSteps - 1 THEN cursorX + 1 ELSE cursorX
    /\ Quiet
    /\ UNCHANGED <<mode, filePath, bpm, steps, notes, cursorY, isPlaying,
                   currentStep, message, selectedOut, selectingPort, outPort,
                   midiOuts, disk, ticks>>
    /\ UNCHANGED <<codecVars, synthVars, browserVars>>

KeyUp ==
    /\ InSequencer /\ Budgeted /\ Key("up")
    /\ cursorY' = IF cursorY > 0 THEN cursorY - 1 ELSE cursorY
    /\ Quiet
    /\ UNCHANGED <<mode, filePath, bpm, steps, notes, cursorX, isPlaying,
                   currentStep, message, selectedOut, selectingPort, outPort,
                   midiOuts, disk, ticks>>
    /\ UNCHANGED <<codecVars, synthVars, browserVars>>

KeyDown ==
    /\ InSequencer /\ Budgeted /\ Key("down")
    /\ cursorY' = IF cursorY < numChannels - 1 THEN cursorY + 1 ELSE cursorY
    /\ Quiet
    /\ UNCHANGED <<mode, filePath, bpm, steps, notes, cursorX, isPlaying,
                   currentStep, message, selectedOut, selectingPort, outPort,
                   midiOuts, disk, ticks>>
    /\ UNCHANGED <<codecVars, synthVars, browserVars>>

(* " ": toggle the step under the cursor and save *)
KeySpaceRevertsOnError ==
    /\ InSequencer /\ Budgeted /\ Key("space")
    /\ \E ok \in BOOLEAN :
          /\ steps' = IF SaveSucceeds(filePath, ok)
                      THEN [steps EXCEPT ![cursorY][cursorX] = ~@]
                      ELSE steps
          /\ disk' = DiskAfterSave(filePath, ok,
                        [steps EXCEPT ![cursorY][cursorX] = ~@], notes, bpm)
          /\ message' = IF SaveSucceeds(filePath, ok) THEN "MIDI file saved"
                        ELSE "Error saving"
    /\ Quiet
    /\ UNCHANGED <<mode, filePath, bpm, notes, cursorX, cursorY, isPlaying,
                   currentStep, selectedOut, selectingPort, outPort,
                   midiOuts, ticks>>
    /\ UNCHANGED <<codecVars, synthVars, browserVars>>

KeySpace ==
    /\ InSequencer /\ Budgeted /\ Key("space")
    /\ steps' = [steps EXCEPT ![cursorY][cursorX] = ~steps[cursorY][cursorX]]
    /\ SaveAfter(steps', notes, bpm)
    /\ Quiet
    /\ UNCHANGED <<mode, filePath, bpm, notes, cursorX, cursorY, isPlaying,
                   currentStep, selectedOut, selectingPort, outPort,
                   midiOuts, ticks>>
    /\ UNCHANGED <<codecVars, synthVars, browserVars>>

(* "+": bpm += 5 below 300, and save *)
KeyPlus ==
    /\ InSequencer /\ Budgeted /\ Key("+")
    /\ IF bpm < 300
       THEN bpm' = bpm + 5 /\ SaveAfter(steps, notes, bpm')
       ELSE UNCHANGED <<bpm, disk, message>>
    /\ Quiet
    /\ UNCHANGED <<mode, filePath, steps, notes, cursorX, cursorY, isPlaying,
                   currentStep, selectedOut, selectingPort, outPort,
                   midiOuts, ticks>>
    /\ UNCHANGED <<codecVars, synthVars, browserVars>>

(* "-": bpm -= 5 above 20, and save *)
KeyMinus ==
    /\ InSequencer /\ Budgeted /\ Key("-")
    /\ IF bpm > 20
       THEN bpm' = bpm - 5 /\ SaveAfter(steps, notes, bpm')
       ELSE UNCHANGED <<bpm, disk, message>>
    /\ Quiet
    /\ UNCHANGED <<mode, filePath, steps, notes, cursorX, cursorY, isPlaying,
                   currentStep, selectedOut, selectingPort, outPort,
                   midiOuts, ticks>>
    /\ UNCHANGED <<codecVars, synthVars, browserVars>>

(* "w" that changes the note in memory only *)
KeyWNoSave ==
    /\ InSequencer /\ Budgeted /\ Key("w")
    /\ IF notes[cursorY][cursorX] < 127
       THEN notes' = [notes EXCEPT ![cursorY][cursorX] = @ + 1]
       ELSE UNCHANGED notes
    /\ Quiet
    /\ UNCHANGED <<mode, filePath, bpm, steps, cursorX, cursorY, isPlaying,
                   currentStep, selectedOut, selectingPort, outPort,
                   midiOuts, ticks, disk, message>>
    /\ UNCHANGED <<codecVars, synthVars, browserVars>>

(* "w" without the test against 127 *)
KeyWNoLimit ==
    /\ InSequencer /\ Budgeted /\ Key("w")
    /\ notes' = [notes EXCEPT ![cursorY][cursorX] = @ + 1]
    /\ SaveAfter(steps, notes', bpm)
    /\ Quiet
    /\ UNCHANGED <<mode, filePath, bpm, steps, cursorX, cursorY, isPlaying,
                   currentStep, selectedOut, selectingPort, outPort,
                   midiOuts, ticks>>
    /\ UNCHANGED <<codecVars, synthVars, browserVars>>

(* "w": note of the cell under the cursor + 1 below 127, and save *)
KeyW ==
    /\ InSequencer /\ Budgeted /\ Key("w")
    /\ IF notes[cursorY][cursorX] < 127
       THEN /\ notes' = [notes EXCEPT ![cursorY][cursorX] = @ + 1]
            /\ SaveAfter(steps, notes', bpm)
       ELSE UNCHANGED <<notes, disk, message>>
    /\ Quiet
    /\ UNCHANGED <<mode, filePath, bpm, steps, cursorX, cursorY, isPlaying,
                   currentStep, selectedOut, selectingPort, outPort,
                   midiOuts, ticks>>
    /\ UNCHANGED <<codecVars, synthVars, browserVars>>

(* "s": note of the cell under the cursor - 1 above 0, and save *)
KeyS ==
    /\ InSequencer /\ Budgeted /\ Key("s")
    /\ IF notes[cursorY][cursorX] > 0
       THEN /\ notes' = [notes EXCEPT ![cursorY][cursorX] = @ - 1]
            /\ SaveAfter(steps, notes', bpm)
       ELSE UNCHANGED <<notes, disk, message>>
    /\ Quiet
    /\ UNCHANGED <<mode, filePath, bpm, steps, cursorX, cursorY, isPlaying,
                   currentStep, selectedOut, selectingPort, outPort,
                   midiOuts, ticks>>
    /\ UNCHANGED <<codecVars, synthVars, browserVars>>

(* "c" that clears every channel *)
KeyCClearsAll ==
    /\ InSequencer /\ Budgeted /\ Key("c")
    /\ steps' = EmptyStepGrid
    /\ SaveAfter(steps', notes, bpm)
    /\ Quiet
    /\ UNCHANGED <<mode, filePath, bpm, notes, cursorX, cursorY, isPlaying,
                   currentStep, selectedOut, selectingPort, outPort,
                   midiOuts, ticks>>
    /\ UNCHANGED <<codecVars, synthVars, browserVars>>

(* "c": clear the channel under the cursor and save *)
KeyC ==
    /\ InSequencer /\ Budgeted /\ Key("c")
    /\ steps' = [steps EXCEPT ![cursorY] = [st \in Steps |-> FALSE]]
    /\ SaveAfter(steps', notes, bpm)
    /\ Quiet
    /\ UNCHANGED <<mode, filePath, bpm, notes, cursorX, cursorY, isPlaying,
                   currentStep, selectedOut, selectingPort, outPort,
                   midiOuts, ticks>>
    /\ UNCHANGED <<codecVars, synthVars, browserVars>>

(* "p" that resumes from the step where playback stopped *)
KeyPResumes ==
    /\ InSequencer /\ Key("p")
    /\ isPlaying' = ~isPlaying
    /\ IF isPlaying'
       THEN /\ Len(ticks) < MaxPending
            /\ ticks' = Append(ticks, Timer(tickWithBPM(bpm)))
            /\ Quiet
       ELSE /\ ticks' = MarkStale(ticks)
            /\ Send(AllNotesOffMsgs)
    /\ UNCHANGED <<mode, filePath, bpm, steps, notes, cursorX, cursorY,
                   currentStep, message, selectedOut, selectingPort, outPort,
                   midiOuts, disk, nKeys>>
    /\ UNCHANGED <<codecVars, synthVars, browserVars>>

(* "p": toggle playback.  Starting resets the play-head and schedules a    *)
(* timer from the bpm; stopping sends all notes off.                       *)
KeyP ==
    /\ InSequencer /\ Key("p")
    /\ isPlaying' = ~isPlaying
    /\ IF isPlaying'
       THEN /\ Len(ticks) < MaxPending
            /\ currentStep' = 0
            /\ ticks' = Append(ticks, Timer(tickWithBPM(bpm)))
            /\ Quiet
       ELSE /\ UNCHANGED currentStep
            /\ ticks' = MarkStale(ticks)
            /\ Send(AllNotesOffMsgs)
    /\ UNCHANGED <<mode, filePath, bpm, steps, notes, cursorX, cursorY,
                   message, selectedOut, selectingPort, outPort, midiOuts,
                   disk, nKeys>>
    /\ UNCHANGED <<codecVars, synthVars, browserVars>>

(* "o": refresh the port list and open the port selection *)
KeyO ==
    /\ InSequencer /\ Key("o")
    /\ \E n \in 0 .. MaxPorts :
          /\ refreshMIDIPorts(n)
          /\ message' = IF n = 0 THEN "No MIDI outputs found" ELSE "Found"
    /\ selectingPort' = TRUE
    /\ UNCHANGED <<mode, filePath, bpm, steps, notes, cursorX, cursorY,
                   isPlaying, currentStep, disk, ticks, nKeys>>
    /\ UNCHANGED <<codecVars, synthVars, browserVars>>

(* Port selection: up / k *)
PortUp ==
    /\ InPortSelection /\ Key("up")
    /\ selectedOut' = IF selectedOut > 0 THEN selectedOut - 1
                      ELSE IF selectedOut = -1 /\ midiOuts > 0 THEN 0
                      ELSE selectedOut
    /\ Quiet
    /\ UNCHANGED <<mode, filePath, bpm, steps, notes, cursorX, cursorY,
                   isPlaying, currentStep, message, selectingPort, outPort,
                   midiOuts, disk, ticks, nKeys>>
    /\ UNCHANGED <<codecVars, synthVars, browserVars>>

(* Port selection: down / j *)
PortDown ==
    /\ InPortSelection /\ Key("down")
    /\ selectedOut' = IF selectedOut < midiOuts - 1 THEN selectedOut + 1
                      ELSE selectedOut
    /\ Quiet
    /\ UNCHANGED <<mode, filePath, bpm, steps, notes, cursorX, cursorY,
                   isPlaying, currentStep, message, selectingPort, outPort,
                   midiOuts, disk, ticks, nKeys>>
    /\ UNCHANGED <<codecVars, synthVars, browserVars>>

(* Port selection: enter.  selectPort closes the open port, then opens the *)
(* selected one (opened: midi.SendTo succeeds).                            *)
PortEnter ==
    /\ InPortSelection /\ Key("enter")
    /\ IF selectedOut >= 0 /\ selectedOut < midiOuts
       THEN \E opened \in BOOLEAN :
               /\ sent' = IF outPort # -1 THEN AllNotesOffMsgs ELSE <<>>
               /\ sounding' = {}
               /\ outPort' = IF opened THEN selectedOut ELSE -1
               /\ message' = IF opened THEN "Connected" ELSE "Error"
       ELSE Quiet /\ UNCHANGED <<outPort, message>>
    /\ selectingPort' = FALSE
    /\ UNCHANGED <<mode, filePath, bpm, steps, notes, cursorX, cursorY,
                   isPlaying, currentStep, selectedOut, midiOuts, disk,
                   ticks, nKeys>>
    /\ UNCHANGED <<codecVars, synthVars, browserVars>>

(* Port selection: escape, q or o leave the selection *)
PortEscape ==
    /\ InPortSelection
    /\ \E k \in {"escape", "q", "o"} : Key(k)
    /\ selectingPort' = FALSE
    /\ Quiet
    /\ UNCHANGED <<mode, filePath, bpm, steps, notes, cursorX, cursorY,
                   isPlaying, currentStep, message, selectedOut, outPort,
                   midiOuts, disk, ticks, nKeys>>
    /\ UNCHANGED <<codecVars, synthVars, browserVars>>

(* Port selection: r refreshes the port list *)
PortRefresh ==
    /\ InPortSelection /\ Key("r")
    /\ \E n \in 0 .. MaxPorts : refreshMIDIPorts(n)
    /\ message' = "Found"
    /\ UNCHANGED <<mode, filePath, bpm, steps, notes, cursorX, cursorY,
                   isPlaying, currentStep, selectingPort, disk, ticks, nKeys>>
    /\ UNCHANGED <<codecVars, synthVars, browserVars>>

(* "q" in sequencer mode outside the port selection: back to the file      *)
(* browser, playback stopped, all notes off                                *)
KeyQ ==
    /\ InSequencer /\ Key("q")
    /\ mode' = "fileBrowser"
    /\ isPlaying' = FALSE
    /\ ticks' = MarkStale(ticks)
    /\ Send(AllNotesOffMsgs)
    /\ UNCHANGED <<filePath, bpm, steps, notes, cursorX, cursorY,
                   currentStep, message, selectedOut, selectingPort, outPort,
                   midiOuts, disk, nKeys>>
    /\ UNCHANGED <<codecVars, synthVars, browserVars>>

(* "ctrl+c" anywhere, "q" in the file browser: close the port and quit.    *)
(* The end of the program is recorded as mode "quit".                      *)
Quit ==
    /\ \/ mode # "quit" /\ Key("ctrl+c")
       \/ mode = "fileBrowser" /\ Key("q")
    /\ closePort
    /\ mode' = "quit"
    /\ UNCHANGED <<filePath, bpm, steps, notes, cursorX, cursorY, isPlaying,
                   currentStep, message, selectedOut, selectingPort,
                   midiOuts, disk, ticks, nKeys>>
    /\ UNCHANGED <<codecVars, synthVars, browserVars>>

(* File browser, enter on a MIDI file: loadMIDI, then sequencer mode       *)
(* unless it returned an error                                             *)
BrowserEnter ==
    /\ mode = "fileBrowser" /\ Key("enter")
    /\ \E path \in Paths, ok \in BOOLEAN, n \in 0 .. MaxPorts :
          /\ loadMIDI(path, ok, n)
          /\ mode' = IF loadMIDIFails(path, ok) THEN "fileBrowser"
                     ELSE "sequencer"
    /\ Quiet
    /\ UNCHANGED ticks /\ Budgeted
    /\ UNCHANGED <<codecVars, synthVars, browserVars>>

(* n that opens the sequencer whatever createNewMIDI returned *)
BrowserNewIgnoresError ==
    /\ mode = "fileBrowser" /\ Key("n")
    /\ \E ok \in BOOLEAN, n \in 0 .. MaxPorts :
          /\ createNewMIDI("new_sequence.mid", ok, n)
          /\ mode' = "sequencer"
    /\ Quiet
    /\ UNCHANGED ticks /\ Budgeted
    /\ UNCHANGED <<codecVars, synthVars, browserVars>>

(* File browser, n: createNewMIDI(new_sequence.mid) *)
BrowserNew ==
    /\ mode = "fileBrowser" /\ Key("n")
    /\ \E ok \in BOOLEAN, n \in 0 .. MaxPorts :
          /\ createNewMIDI("new_sequence.mid", ok, n)
          /\ mode' = IF SaveSucceeds("new_sequence.mid", ok) THEN "sequencer"
                     ELSE "fileBrowser"
    /\ Quiet
    /\ UNCHANGED ticks /\ Budgeted
    /\ UNCHANGED <<codecVars, synthVars, browserVars>>

Next ==
    \/ Tick
    \/ KeyLeft \/ KeyRight \/ KeyUp \/ KeyDown
    \/ KeySpace \/ KeyPlus \/ KeyMinus \/ KeyW \/ KeyS \/ KeyC
    \/ KeyP \/ KeyO
    \/ PortUp \/ PortDown \/ PortEnter \/ PortEscape \/ PortRefresh
    \/ KeyQ \/ Quit
    \/ BrowserEnter \/ BrowserNew

Spec == Init /\ [][Next]_vars

(***************************************************************************)
(* Claims about playback                                                   *)
(***************************************************************************)

(* C4: a tick scheduled before a Stop is cancelled by it: it never         *)
(* advances currentStep nor emits notes, even when playback restarts       *)
(* before it is delivered, and at most one tick is pending at any time.    *)
(* tea.Tick cannot be cancelled, so this is violated: after p, p, p two    *)
(* timers are in flight and the first one advances the play-head.          *)
C4_StoppedTicksCancelled ==
    /\ Len(ticks) <= 1
    /\ event.kind = "tick" /\ event.stale => ~event.played

(* Control change 123 (all notes off), value 0, on channels 0..3 in order *)
AllNotesOffOnEachChannel(msgs) ==
    /\ Len(msgs) = numChannels
    /\ \A ch \in Channels :
          msgs[ch + 1] = [kind |-> "ControlChange", channel |-> ch,
                          controller |-> 123, value |-> 0]

StopStep ==
    \/ isPlaying /\ ~isPlaying'
    \/ mode = "sequencer" /\ mode' = "fileBrowser"

(* C5: every transition to Stopped ("p" while playing, "q" leaving the     *)
(* sequencer) hands all-notes-off for each of the 4 channels to the        *)
(* connected output in that same step (nothing when no output is           *)
(* connected), so while stopped the output holds no note that was turned   *)
(* on; "q" while not playing leaves isPlaying, currentStep and the number  *)
(* of timers in flight as they were and sends all-notes-off again.         *)
C5_StopSendsAllNotesOff ==
    /\ [](~isPlaying => sounding = {})
    /\ [][StopStep =>
            /\ ~isPlaying'
            /\ IF outPort # -1 THEN AllNotesOffOnEachChannel(sent')
                               ELSE sent' = <<>>
            /\ sounding' = {}
            /\ currentStep' = currentStep
            /\ Len(ticks') = Len(ticks)]_vars

(* "p" stopped a playback that had turned notes on at step 1 of the        *)
(* connected output                                                        *)
C5_Witness ==
    /\ event = [kind |-> "key", key |-> "p"]
    /\ ~isPlaying /\ outPort # -1
    /\ currentStep = 1 /\ steps[0][1] /\ steps[1][1]
    /\ AllNotesOffOnEachChannel(sent)
    /\ sounding = {}

CellNoteOff(ch, st) ==
    IF steps[ch][st]
    THEN <<[kind |-> "NoteOff", channel |-> ch, key |-> notes[ch][st],
            velocity |-> 0]>>
    ELSE <<>>

CellNoteOn(ch, st) ==
    IF steps[ch][st]
    THEN <<[kind |-> "NoteOn", channel |-> ch, key |-> notes[ch][st],
            velocity |-> 100]>>
    ELSE <<>>

TickEmission(prev, new) ==
    CellNoteOff(0, prev) \o CellNoteOff(1, prev) \o CellNoteOff(2, prev)
    \o CellNoteOff(3, prev)
    \o CellNoteOn(0, new) \o CellNoteOn(1, new) \o CellNoteOn(2, new)
    \o CellNoteOn(3, new)

(* C6: a tick processed while playing sends NoteOff(ch, note) for the      *)
(* active cells of the previous step in channel order, moves currentStep   *)
(* to (currentStep + 1) mod 16, then sends NoteOn(ch, note, 100) for the   *)
(* active cells of the new step, nothing for inactive cells (and nothing   *)
(* at all when no output is connected), and schedules exactly one tick; a  *)
(* tick processed while stopped changes no state, sends nothing and        *)
(* schedules nothing.                                                      *)
C6_TickAdvancesAndEmits ==
    [][event'.kind = "tick" =>
         /\ UNCHANGED <<mode, filePath, bpm, steps, notes, cursorX, cursorY,
                        isPlaying, message, selectedOut, selectingPort,
                        outPort, midiOuts, disk>>
         /\ IF isPlaying
            THEN /\ currentStep' = (currentStep + 1) % 16
                 /\ sent' = IF outPort # -1
                            THEN TickEmission(currentStep, currentStep')
                            ELSE <<>>
                 /\ Len(ticks') = Len(ticks)
                 /\ ~ticks'[Len(ticks')].stale
            ELSE /\ currentStep' = currentStep
                 /\ sent' = <<>>
                 /\ sounding' = sounding
                 /\ Len(ticks') = Len(ticks) - 1]_vars

(* A tick wrapped the play-head from step 15 to step 0 and sent two        *)
(* NoteOffs followed by two NoteOns to the connected output                *)
C6_Witness ==
    /\ event.kind = "tick" /\ event.played
    /\ currentStep = 0 /\ outPort # -1
    /\ Len(sent) = 4
    /\ sent[1].kind = "NoteOff" /\ sent[2].kind = "NoteOff"
    /\ sent[3].kind = "NoteOn" /\ sent[4].kind = "NoteOn"
    /\ Len(ticks) = 1

(* C7: the tick scheduled at the end of each processed tick is delayed by  *)
(* 60000/bpm/4 ms of the bpm current at that moment.  The handler          *)
(* schedules tick(), a fixed 60 ms, so this is violated at 120 bpm, where  *)
(* the interval should be 125 ms.                                          *)
C7_RescheduledFromCurrentBPM ==
    event.kind = "tick" /\ event.played =>
        ticks[Len(ticks)].interval = (60000 \div bpm) \div 4

(***************************************************************************)
(* SpecFiles: the file browser opens what it finds in the directory,       *)
(* files written by other programs included, and the sequencer edits it    *)
(***************************************************************************)

(* Tempos of files written by other programs *)
ForeignTempos == {10, 298, 600}

(* What the path listed by the browser holds when it is opened: a file of  *)
(* this program or of another one, something that is not MIDI, or nothing  *)
(* (the file was removed after the directory was listed)                   *)
FilesFound ==
    {NoFile, Garbage, EncodeSMF(StepsOf(PatternActive), RampNotes, 120)}
    \cup {EncodeSMF(StepsOf(TestActive), TestNotes, b) : b \in ForeignTempos}

InitFiles ==
    /\ mode = "fileBrowser"
    /\ filePath = ""
    /\ bpm = 0
    /\ steps = EmptyStepGrid
    /\ notes = [ch \in Channels |-> [st \in Steps |-> 0]]
    /\ cursorX = 0
    /\ cursorY = 0
    /\ isPlaying = FALSE
    /\ currentStep = 0
    /\ message = ""
    /\ selectedOut = 0
    /\ selectingPort = FALSE
    /\ outPort = -1
    /\ midiOuts = 0
    /\ \E f \in FilesFound :
          disk = [p \in Paths |-> IF p = "song.mid" THEN f ELSE NoFile]
    /\ ticks = <<>>
    /\ sent = <<>>
    /\ sounding = {}
    /\ event = [kind |-> "init"]
    /\ nKeys = 0
    /\ pc = "run"
    /\ NoBrowser
    /\ saved = [steps |-> steps, notes |-> notes, bpm |-> bpm]
    /\ IdleSynth

NextFiles ==
    \/ BrowserEnter \/ BrowserNew
    \/ KeySpace \/ KeyPlus \/ KeyMinus \/ KeyW \/ KeyS \/ KeyC
    \/ KeyQ \/ Quit

SpecFiles == InitFiles /\ [][NextFiles]_vars

(* C18: in every state of the sequencer, after loading any parseable file  *)
(* and after any sequence of + and - commands, 20 <= bpm <= 300.           *)
(* loadMIDI takes the tempo of the file as it is, so a file with a tempo   *)
(* of 600 or 10 bpm violates this, and + takes 298 to 303.                 *)
C18_BpmInRange ==
    mode = "sequencer" => 20 <= bpm /\ bpm <= 300

(* C19: loadMIDI of a path that is missing or is not a MIDI file reports   *)
(* no parse error: all 64 cells are inactive with notes 60/62/64/65 on     *)
(* channels 0..3, bpm is 120, cursor, play-head and isPlaying are reset,   *)
(* and that default is written to the path at once; only when the write    *)
(* fails is an error returned (the file browser then stays open).          *)
C19_UnreadableFileLoadsDefault ==
    [][/\ mode = "fileBrowser"
       /\ event' = [kind |-> "key", key |-> "enter"]
       /\ disk[filePath'].kind \in {"NoFile", "Garbage"}
       =>
       /\ \A ch \in Channels, st \in Steps :
             /\ ~steps'[ch][st]
             /\ notes'[ch][st] = <<60, 62, 64, 65>>[ch + 1]
       /\ bpm' = 120
       /\ cursorX' = 0 /\ cursorY' = 0
       /\ currentStep' = 0 /\ ~isPlaying'
       /\ \/ /\ mode' = "sequencer"
             /\ disk' = [disk EXCEPT ![filePath'] =
                           EncodeSMF(steps', notes', 120)]
          \/ /\ mode' = "fileBrowser"
             /\ disk' = disk]_vars

(* The first key opened song.mid, which was not a MIDI file: the default   *)
(* grid is in memory and on disk                                           *)
C19_Witness ==
    /\ event = [kind |-> "key", key |-> "enter"]
    /\ nKeys = 1 /\ mode = "sequencer"
    /\ filePath = "song.mid" /\ message = "MIDI file saved"
    /\ bpm = 120 /\ steps = EmptyStepGrid
    /\ disk["song.mid"] = EncodeSMF(EmptyStepGrid, DefaultNoteGrid, 120)

(* The grid and tempo a sequencer command produces; run: the command       *)
(* changes something and therefore saves                                   *)
Command(k) ==
    CASE k = "space" ->
           [run |-> TRUE, bpm |-> bpm, notes |-> notes,
            steps |-> [steps EXCEPT ![cursorY][cursorX] = ~@]]
      [] k = "+" ->
           [run |-> bpm < 300, bpm |-> bpm + 5, notes |-> notes,
            steps |-> steps]
      [] k = "-" ->
           [run |-> bpm > 20, bpm |-> bpm - 5, notes |-> notes,
            steps |-> steps]
      [] k = "w" ->
           [run |-> notes[cursorY][cursorX] < 127, bpm |-> bpm,
            notes |-> [notes EXCEPT ![cursorY][cursorX] = @ + 1],
            steps |-> steps]
      [] k = "s" ->
           [run |-> notes[cursorY][cursorX] > 0, bpm |-> bpm,
            notes |-> [notes EXCEPT ![cursorY][cursorX] = @ - 1],
            steps |-> steps]
      [] OTHER ->
           [run |-> TRUE, bpm |-> bpm, notes |-> notes,
            steps |-> [steps EXCEPT ![cursorY] = [st \in Steps |-> FALSE]]]

(* C20: when saveMIDI fails during a sequencer command (toggle, note       *)
(* change, tempo change, clear) the message reports it, the grid and bpm   *)
(* in memory are exactly what the command produced, and mode, cursor and   *)
(* playback state are as before the command.                               *)
C20_FailedSaveKeepsEdit ==
    [][\A k \in {"space", "+", "-", "w", "s", "c"} :
          /\ event' = [kind |-> "key", key |-> k]
          /\ Command(k).run
          /\ disk'[filePath] # EncodeSMF(Command(k).steps, Command(k).notes,
                                         Command(k).bpm)
          =>
          /\ message' = "Error saving"
          /\ steps' = Command(k).steps
          /\ notes' = Command(k).notes
          /\ bpm' = Command(k).bpm
          /\ mode' = mode
          /\ cursorX' = cursorX /\ cursorY' = cursorY
          /\ isPlaying' = isPlaying /\ currentStep' = currentStep
          /\ ticks' = ticks]_vars

(* A toggle made while playing could not be saved: the cell is off in      *)
(* memory and still on in the file                                         *)
C20_Witness ==
    /\ event = [kind |-> "key", key |-> "space"]
    /\ message = "Error saving"
    /\ isPlaying /\ currentStep = 1
    /\ ~steps[0][0]
    /\ LoadedGrid(disk[filePath]).steps[0][0]

(* The file of the session encodes the grid and tempo in memory *)
FileInSync(d, path, stp, nts, b) == d[path] = EncodeSMF(stp, nts, b)

InitOutcomes == {"ok", "audio", "driver", "port"}

VirtualStep ==
    UNCHANGED <<seqVars, envVars, codecVars, browserVars, lastOp, mu, thr,
                serial, ui>>

(* The program has not quit: Update still handles messages *)
Running == session.cl # "done"

(* One more call on the Synth from the keyboard or the MIDI input *)
Played == nOps < MaxOps /\ nOps' = nOps + 1

(* initMIDI: NewSynth, SetVolume(0.5), rtmididrv.New, OpenVirtualIn; what  *)
(* was opened before a failure is closed again and nothing is returned     *)
InitMIDI ==
    /\ session.pc = "init"
    /\ \E r \in InitOutcomes :
          /\ session' = [session EXCEPT !.pc = "result", !.result = r]
          /\ masterVolume' = IF r = "audio" THEN masterVolume
                             ELSE ClampVolume(EnvOne \div 2)
    /\ UNCHANGED <<voices, nOps, rendered>>
    /\ VirtualStep

(* case initResultMsg of Update *)
InitResult ==
    /\ Running /\ session.pc = "result"
    /\ session' = IF session.result = "ok"
                  THEN [session EXCEPT !.pc = "listen", !.synth = "open",
                                       !.driver = "open", !.inPort = "open"]
                  ELSE [session EXCEPT !.pc = "failed", !.err = TRUE]
    /\ UNCHANGED <<voices, masterVolume, nOps, rendered>>
    /\ VirtualStep

(* listenMIDI: inPort.Listen; a port closed meanwhile refuses *)
ListenMIDI ==
    /\ session.pc = "listen"
    /\ \E ok \in BOOLEAN :
          session' = IF ok /\ session.inPort = "open"
                     THEN [session EXCEPT !.pc = "run", !.stopFunc = "set"]
                     ELSE [session EXCEPT !.pc = "run", !.err = TRUE]
    /\ UNCHANGED <<voices, masterVolume, nOps, rendered>>
    /\ VirtualStep

Listening == session.stopFunc = "set"

(* The callback of inPort.Listen: 0x90, 0x80 and controller 123 *)
MidiNoteOn ==
    /\ Listening /\ Played
    /\ \E channel \in SynthChannels, note \in SynthNotes,
          velocity \in SynthVelocities :
          voices' = NoteOnVoices(voices, channel, note, velocity)
    /\ UNCHANGED <<masterVolume, session, rendered>>
    /\ VirtualStep

MidiNoteOff ==
    /\ Listening /\ Played
    /\ \E channel \in SynthChannels, note \in SynthNotes :
          voices' = noteOffLocked(voices, channel, note)
    /\ UNCHANGED <<masterVolume, session, rendered>>
    /\ VirtualStep

MidiAllNotesOff ==
    /\ Listening /\ Played
    /\ voices' = AllNotesOffVoices(voices)
    /\ UNCHANGED <<masterVolume, session, rendered>>
    /\ VirtualStep

(* synthReader.Read, one frame: the player runs from NewSynth on *)
VirtualFrame ==
    /\ session.result \notin {"none", "audio"}
    /\ rendered < MaxFrames
    /\ rendered' = rendered + 1
    /\ voices' = RenderVoices(voices, 1)
    /\ UNCHANGED <<masterVolume, session, nOps>>
    /\ VirtualStep

(* "up" / "down": volume in steps of 0.1 within [0, 1] *)
KeyVolume ==
    /\ Running /\ Played
    /\ \E dv \in {-1, 1} :
          LET moves == IF dv = 1 THEN session.volume < 10
                       ELSE session.volume > 0
              vol == IF moves THEN session.volume + dv ELSE session.volume
          IN /\ session' = [session EXCEPT !.volume = vol]
             /\ masterVolume' = IF moves /\ session.synth # "nil"
                                THEN ClampVolume(vol * (EnvOne \div 10))
                                ELSE masterVolume
    /\ UNCHANGED <<voices, rendered>>
    /\ VirtualStep

(* " ": panic *)
KeyPanic ==
    /\ Running /\ Played
    /\ voices' = IF session.synth # "nil" THEN AllNotesOffVoices(voices)
                 ELSE voices
    /\ UNCHANGED <<masterVolume, session, rendered>>
    /\ VirtualStep

(* "q" / "ctrl+c": Update returns the cleanup command *)
KeyQuit ==
    /\ Running /\ session.cl = "none"
    /\ session' = [session EXCEPT !.cl = "stop"]
    /\ UNCHANGED <<voices, masterVolume, nOps, rendered>>
    /\ VirtualStep

(* cleanup, statement by statement *)
CleanupStop ==
    /\ session.cl = "stop"
    /\ session' = [session EXCEPT
                     !.cl = "inPort",
                     !.stopFunc = IF @ = "nil" THEN "nil" ELSE "called"]
    /\ UNCHANGED <<voices, masterVolume, nOps, rendered>>
    /\ VirtualStep

CleanupInPort ==
    /\ session.cl = "inPort"
    /\ session' = [session EXCEPT
                     !.cl = "driver",
                     !.inPort = IF @ = "nil" THEN "nil" ELSE "closed"]
    /\ UNCHANGED <<voices, masterVolume, nOps, rendered>>
    /\ VirtualStep

CleanupDriver ==
    /\ session.cl = "driver"
    /\ session' = [session EXCEPT
                     !.cl = "synth",
                     !.driver = IF @ = "nil" THEN "nil" ELSE "closed"]
    /\ UNCHANGED <<voices, masterVolume, nOps, rendered>>
    /\ VirtualStep

CleanupAllNotesOff ==
    /\ session.cl = "synth"
    /\ IF session.synth # "nil"
       THEN /\ voices' = AllNotesOffVoices(voices)
            /\ session' = [session EXCEPT !.cl = "close", !.silenced = TRUE]
       ELSE /\ UNCHANGED voices
            /\ session' = [session EXCEPT !.cl = "quit"]
    /\ UNCHANGED <<masterVolume, nOps, rendered>>
    /\ VirtualStep

CleanupClose ==
    /\ session.cl = "close"
    /\ session' = [session EXCEPT !.cl = "quit", !.synth = "closed"]
    /\ UNCHANGED <<voices, masterVolume, nOps, rendered>>
    /\ VirtualStep

(* return tea.Quit() *)
CleanupQuit ==
    /\ session.cl = "quit"
    /\ session' = [session EXCEPT !.cl = "done"]
    /\ UNCHANGED <<voices, masterVolume, nOps, rendered>>
    /\ VirtualStep

InitVirtual == IdleSynth /\ IdleSequencer

NextVirtual ==
    \/ InitMIDI \/ InitResult \/ ListenMIDI
    \/ MidiNoteOn \/ MidiNoteOff \/ MidiAllNotesOff \/ VirtualFrame
    \/ KeyVolume \/ KeyPanic \/ KeyQuit
    \/ CleanupStop \/ CleanupInPort \/ CleanupDriver
    \/ CleanupAllNotesOff \/ CleanupClose \/ CleanupQuit

SpecVirtual == InitVirtual /\ [][NextVirtual]_vars

(* C22: when the virtual-device session is closed, AllNotesOff is invoked  *)
(* on the synth before any resource (the MIDI listener, the input port,    *)
(* the MIDI driver, the synth) is released.  cleanup stops the listener    *)
(* and closes the port and the driver first.                               *)
C22_AllNotesOffBeforeRelease ==
    \/ session.stopFunc = "called"
    \/ session.inPort = "closed"
    \/ session.driver = "closed"
    \/ session.synth = "closed"
    => session.silenced

(* C23: 0 <= currentStep < 16 in every reachable state, and currentStep is *)
(* 0 right after every transition from stopped to playing: playback never  *)
(* resumes from the position where it was stopped.                         *)
C23_PlayHeadInRangeAndReset ==
    /\ [](currentStep \in 0 .. numSteps - 1)
    /\ [][~isPlaying /\ isPlaying' => currentStep' = 0]_vars

(* Playback was started again after a stop (the timer of the earlier run   *)
(* is still in flight) and the play-head is at 0                           *)
C23_Witness ==
    /\ event = [kind |-> "key", key |-> "p"]
    /\ isPlaying /\ currentStep = 0
    /\ \E i \in DOMAIN ticks : ticks[i].stale

(***************************************************************************)
(* SpecClock: playback started at every tempo of the documented range      *)
(***************************************************************************)

(* The tempo range of the + and - commands *)
MinBPM == 20

MaxBPM == 300

ClockFiles ==
    {EncodeSMF(StepsOf(PatternActive), RampNotes, b) : b \in MinBPM .. MaxBPM}

InitClock ==
    /\ mode = "fileBrowser"
    /\ filePath = ""
    /\ bpm = 0
    /\ steps = EmptyStepGrid
    /\ notes = [ch \in Channels |-> [st \in Steps |-> 0]]
    /\ cursorX = 0
    /\ cursorY = 0
    /\ isPlaying = FALSE
    /\ currentStep = 0
    /\ message = ""
    /\ selectedOut = 0
    /\ selectingPort = FALSE
    /\ outPort = -1
    /\ midiOuts = 0
    /\ \E f \in ClockFiles :
          disk = [p \in Paths |-> IF p = "song.mid" THEN f ELSE NoFile]
    /\ ticks = <<>>
    /\ sent = <<>>
    /\ sounding = {}
    /\ event = [kind |-> "init"]
    /\ nKeys = 0
    /\ pc = "run"
    /\ NoBrowser
    /\ saved = [steps |-> steps, notes |-> notes, bpm |-> bpm]
    /\ IdleSynth

NextClock == BrowserEnter \/ KeyPlus \/ KeyMinus \/ KeyP

SpecClock == InitClock /\ [][NextClock]_vars

(* The timer scheduled last *)
Scheduled(ts) == ts[Len(ts)].interval

(* C24: tickWithBPM schedules 60000 / bpm / 4 milliseconds in integer      *)
(* division: 125 ms at 120 bpm, 50 ms at 300 bpm, and between 50 and       *)
(* 750 ms for every bpm in [20, 300].                                      *)
C24_StepInterval ==
    [][~isPlaying /\ isPlaying' =>
         /\ Len(ticks') = Len(ticks) + 1
         /\ \E q \in 0 .. 60000 :
               /\ q * bpm <= 60000 /\ 60000 < (q + 1) * bpm
               /\ 4 * Scheduled(ticks') <= q
               /\ q < 4 * (Scheduled(ticks') + 1)
         /\ bpm = 120 => Scheduled(ticks') = 125
         /\ bpm = 300 => Scheduled(ticks') = 50
         /\ MinBPM <= bpm /\ bpm <= MaxBPM =>
               50 <= Scheduled(ticks') /\ Scheduled(ticks') <= 750]_vars

(* Playback started at 20 bpm: a step lasts 750 ms *)
C24_Witness ==
    /\ event = [kind |-> "key", key |-> "p"]
    /\ isPlaying /\ bpm = MinBPM
    /\ ticks = <<Timer(750)>>

(***************************************************************************)
(* SpecEdit: editing and playing the opened pattern with the cursor on     *)
(* any channel                                                             *)
(***************************************************************************)

(* Columns the cursor starts from: both ends *)
EditColumns == {0, numSteps - 1}

(* song.mid was opened and the cursor moved *)
InitEdit ==
    /\ mode = "sequencer"
    /\ filePath = "song.mid"
    /\ bpm = 120
    /\ disk = [p \in Paths |->
                 IF p = "song.mid"
                 THEN EncodeSMF(StepsOf(PatternActive), RampNotes, 120)
                 ELSE NoFile]
    /\ steps = LoadedGrid(disk[filePath]).steps
    /\ notes = LoadedGrid(disk[filePath]).notes
    /\ cursorX \in EditColumns
    /\ cursorY \in Channels
    /\ isPlaying = FALSE
    /\ currentStep = 0
    /\ message = "Loaded"
    /\ selectedOut = -1
    /\ selectingPort = FALSE
    /\ outPort = -1
    /\ midiOuts = 0
    /\ ticks = <<>>
    /\ sent = <<>>
    /\ sounding = {}
    /\ event = [kind |-> "init"]
    /\ nKeys = 0
    /\ pc = "run"
    /\ NoBrowser
    /\ saved = [steps |-> steps, notes |-> notes, bpm |-> bpm]
    /\ IdleSynth

NextEdit ==
    \/ KeyLeft \/ KeyRight \/ KeyUp \/ KeyDown
    \/ KeySpace \/ KeyPlus \/ KeyMinus \/ KeyW \/ KeyS \/ KeyC
    \/ KeyP \/ Tick

SpecEdit == InitEdit /\ [][NextEdit]_vars

(* C25: the clear command (c) deactivates all 16 steps of the channel      *)
(* under the cursor and leaves every note, the steps of every other        *)
(* channel, the bpm, the cursor and the playback state unchanged.          *)
C25_ClearOnlyCursorChannel ==
    [][InSequencer /\ event' = [kind |-> "key", key |-> "c"] =>
         /\ \A st \in Steps : ~steps'[cursorY][st]
         /\ \A ch \in Channels \ {cursorY} : steps'[ch] = steps[ch]
         /\ notes' = notes
         /\ bpm' = bpm
         /\ cursorX' = cursorX /\ cursorY' = cursorY
         /\ isPlaying' = isPlaying /\ currentStep' = currentStep
         /\ ticks' = ticks /\ mode' = mode]_vars

(* Channel 3 of the pattern was cleared while playing; the other channels  *)
(* still hold their steps and the notes are those of the file              *)
C25_Witness ==
    /\ event = [kind |-> "key", key |-> "c"]
    /\ isPlaying /\ currentStep = 1 /\ cursorY = 3
    /\ \A st \in Steps : ~steps[3][st]
    /\ \A c \in PatternActive : c[1] # 3 => steps[c[1]][c[2]]
    /\ \A c \in PatternActive : notes[c[1]][c[2]] = RampNotes[c[1]][c[2]]

(***************************************************************************)
(* SpecBrowser: the file browser over a root directory with one            *)
(* subdirectory; a directory holds some MIDI files, which the d key and    *)
(* other programs remove                                                   *)
(***************************************************************************)

Dirs == {"/", "/sub"}

(* Terminal heights: 0 before the first WindowSizeMsg *)
Heights == {0, 15}

(* What os.ReadDir(dir) lists when the directory holds n MIDI files:       *)
(* entries come sorted by name, the subdirectory first                     *)
ReadDir(dir, n) ==
    (IF dir = "/"
     THEN <<[name |-> <<"sub", 0>>, path |-> "/sub", isDir |-> TRUE]>>
     ELSE <<>>)
    \o [i \in 1 .. n |-> [name |-> <<"mid", i>>, path |-> dir,
                          isDir |-> FALSE]]

(* adjustViewportBounds that leaves the cursor alone *)
adjustViewportOnly(f) ==
    [f EXCEPT !.viewportTop = IF @ > f.cursor THEN f.cursor ELSE @]

adjustViewportBounds(f) ==
    LET n == Len(f.files)
        c == IF f.cursor >= n /\ n > 0 THEN n - 1 ELSE f.cursor
        cursor == IF c < 0 THEN 0 ELSE c
    IN [f EXCEPT !.cursor = cursor,
                 !.viewportTop = IF @ > cursor THEN cursor ELSE @]

(* loadFiles: ".." unless in the root, then the listing; a directory that  *)
(* cannot be read leaves ".." alone and skips adjustViewportBounds         *)
loadFiles(f, ok) ==
    LET parent == IF f.currentDir # "/"
                  THEN <<[name |-> <<"..", 0>>, path |-> "/",
                          isDir |-> TRUE]>>
                  ELSE <<>>
    IN IF ok
       THEN adjustViewportBounds(
                [f EXCEPT !.files = parent \o ReadDir(f.currentDir,
                                                      fs'[f.currentDir])])
       ELSE [f EXCEPT !.files = parent,
                      !.message = "Error reading directory"]

(* maxVisibleLines := m.height - 9, at least 5 *)
maxVisibleLines == IF height - 9 < 5 THEN 5 ELSE height - 9

InBrowser == mode = "fileBrowser"

(* What a browser key leaves alone *)
BrowserStep ==
    /\ Quiet
    /\ UNCHANGED <<seqVars, disk, ticks, nKeys, height>>
    /\ UNCHANGED <<codecVars, synthVars>>

(* initialModel: cursor 0 in the working directory, loadFiles *)
InitBrowser ==
    /\ fs \in [Dirs -> {0, 1, MaxFiles}]
    /\ height = 0
    /\ \E dir \in Dirs, ok \in BOOLEAN :
          fb = IF ok
               THEN [currentDir |-> dir, cursor |-> 0, viewportTop |-> 0,
                     message |-> "",
                     files |-> (IF dir # "/"
                                THEN <<[name |-> <<"..", 0>>, path |-> "/",
                                        isDir |-> TRUE]>>
                                ELSE <<>>) \o ReadDir(dir, fs[dir])]
               ELSE [currentDir |-> dir, cursor |-> 0, viewportTop |-> 0,
                     message |-> "Error reading directory",
                     files |-> IF dir # "/"
                               THEN <<[name |-> <<"..", 0>>, path |-> "/",
                                       isDir |-> TRUE]>>
                               ELSE <<>>]
    /\ mode = "fileBrowser"
    /\ filePath = ""
    /\ bpm = 0
    /\ steps = EmptyStepGrid
    /\ notes = [ch \in Channels |-> [st \in Steps |-> 0]]
    /\ cursorX = 0
    /\ cursorY = 0
    /\ isPlaying = FALSE
    /\ currentStep = 0
    /\ message = ""
    /\ selectedOut = 0
    /\ selectingPort = FALSE
    /\ outPort = -1
    /\ midiOuts = 0
    /\ disk = [p \in Paths |-> NoFile]
    /\ ticks = <<>>
    /\ sent = <<>>
    /\ sounding = {}
    /\ event = [kind |-> "init"]
    /\ nKeys = 0
    /\ pc = "browse"
    /\ saved = [steps |-> steps, notes |-> notes, bpm |-> bpm]
    /\ IdleSynth

(* tea.WindowSizeMsg *)
Resize ==
    /\ mode # "quit"
    /\ \E h \in Heights \ {height} : height' = h
    /\ event' = [kind |-> "resize"]
    /\ Quiet
    /\ UNCHANGED <<seqVars, disk, ticks, nKeys, fb, fs>>
    /\ UNCHANGED <<codecVars, synthVars>>

(* Another program removes a MIDI file *)
Removed ==
    /\ \E dir \in Dirs :
          /\ fs[dir] > 0
          /\ fs' = [fs EXCEPT ![dir] = @ - 1]
    /\ event' = [kind |-> "removed"]
    /\ Quiet
    /\ UNCHANGED <<seqVars, disk, ticks, nKeys, fb, height>>
    /\ UNCHANGED <<codecVars, synthVars>>

(* "up" *)
FbUp ==
    /\ InBrowser /\ Key("up")
    /\ fb' = IF fb.cursor > 0
             THEN [fb EXCEPT !.cursor = @ - 1,
                             !.viewportTop = IF fb.cursor - 1 < @
                                             THEN fb.cursor - 1 ELSE @]
             ELSE fb
    /\ UNCHANGED fs
    /\ BrowserStep

(* "down" *)
FbDown ==
    /\ InBrowser /\ Key("down")
    /\ fb' = IF fb.cursor < Len(fb.files) - 1
             THEN [fb EXCEPT !.cursor = @ + 1,
                             !.viewportTop =
                                 IF fb.cursor + 1 >= @ + maxVisibleLines
                                 THEN fb.cursor + 1 - maxVisibleLines + 1
                                 ELSE @]
             ELSE fb
    /\ UNCHANGED fs
    /\ BrowserStep

(* "enter" on a directory (on an empty list: nothing); on a MIDI file it   *)
(* leaves the browser as it is and hands over to loadMIDI                  *)
FbEnterDir ==
    /\ InBrowser /\ Key("enter")
    /\ IF Len(fb.files) = 0 THEN TRUE ELSE fb.files[fb.cursor + 1].isDir
    /\ UNCHANGED fs
    /\ IF Len(fb.files) = 0
       THEN UNCHANGED fb
       ELSE \E ok \in BOOLEAN :
               fb' = loadFiles([fb EXCEPT
                                  !.currentDir = fb.files[fb.cursor + 1].path,
                                  !.cursor = 0, !.viewportTop = 0,
                                  !.message = ""], ok)
    /\ BrowserStep

(* "d": os.Remove of the selected MIDI file, then loadFiles and            *)
(* adjustViewportBounds                                                    *)
FbDelete ==
    /\ InBrowser /\ Key("d")
    /\ IF Len(fb.files) > 0 /\ ~fb.files[fb.cursor + 1].isDir
       THEN \E removed \in BOOLEAN, ok \in BOOLEAN :
               IF removed /\ fs[fb.currentDir] > 0
               THEN /\ fs' = [fs EXCEPT ![fb.currentDir] = @ - 1]
                    /\ fb' = adjustViewportBounds(
                                loadFiles([fb EXCEPT !.message = "Deleted"],
                                          ok))
               ELSE /\ fs' = fs
                    /\ fb' = [fb EXCEPT !.message = "Error deleting"]
       ELSE UNCHANGED <<fb, fs>>
    /\ BrowserStep

NextBrowser ==
    \/ Resize \/ Removed
    \/ FbUp \/ FbDown \/ FbEnterDir \/ FbDelete

SpecBrowser == InitBrowser /\ [][NextBrowser]_vars

(* C26: after loadFiles and after any sequence of file-browser commands    *)
(* (up, down, enter on a directory, delete) the cursor is within           *)
(* [0, len(files) - 1] whenever the list is not empty, and                 *)
(* 0 <= viewportTop <= cursor.                                             *)
C26_CursorInList ==
    /\ Len(fb.files) > 0 => 0 <= fb.cursor /\ fb.cursor <= Len(fb.files) - 1
    /\ 0 <= fb.viewportTop /\ fb.viewportTop <= fb.cursor

(* The cursor was on the last of seven entries when that file was deleted: *)
(* it is on the last of the six left, and the window followed              *)
C26_Witness ==
    /\ event = [kind |-> "key", key |-> "d"]
    /\ fb.message = "Deleted"
    /\ Len(fb.files) = MaxFiles /\ fb.cursor = MaxFiles - 1
    /\ fb.viewportTop > 0

(* C27: after every up/down key in the file browser the cursor lies in the *)
(* visible window, viewportTop <= cursor < viewportTop + maxVisibleLines   *)
(* with maxVisibleLines = max(5, height - 9).  After the terminal shrank,  *)
(* "up" leaves the cursor below the window.                                *)
C27_CursorVisible ==
    event.kind = "key" /\ event.key \in {"up", "down"} /\ InBrowser =>
        /\ fb.viewportTop <= fb.cursor
        /\ fb.cursor < fb.viewportTop + maxVisibleLines

(***************************************************************************)
(* SpecParse: loadMIDI of files written by other programs                  *)
(***************************************************************************)

(* The largest delta a variable-length quantity of an SMF can hold *)
MaxDelta == 268435455

(* Onsets on steps 0 and 2, with a velocity-0 NoteOn and a NoteOff on      *)
(* step 1, a foreign channel number, two onsets on step 2 and one on the   *)
(* tick after the last step                                                *)
TrackMixed ==
    <<NoteOnMsg(0, 0, 60, 100), NoteOffMsg(239, 0, 60),
      NoteOnMsg(1, 0, 72, 0), NoteOffMsg(1, 0, 73),
      NoteOnMsg(239, 9, 50, 90), NoteOnMsg(10, 0, 51, 80),
      NoteOnMsg(3350, 0, 70, 1), EndOfTrack(0)>>

(* An onset on the last tick of the last step *)
TrackLate ==
    <<NoteOffMsg(0, 0, 60), NoteOnMsg(3839, 2, 127, 127), EndOfTrack(1)>>

TrackEmpty == <<EndOfTrack(0)>>

(* Sixteen events of the largest delta, then an onset 2^32 + 240 ticks     *)
(* after the start of the track                                            *)
TrackLong ==
    [i \in 1 .. 16 |-> NoteOffMsg(MaxDelta, 0, 60)]
    \o <<NoteOnMsg(256, 0, 99, 100), EndOfTrack(0)>>

TrackPool ==
    {TrackMixed, TrackLate, TrackEmpty, TrackLong,
     ChannelTrack(StepsOf(TestActive), TestNotes, 0)}

(* Files with a conductor track and 0, 1, 2 or 5 more tracks *)
ForeignFiles ==
    {[kind |-> "SMF", tracks |-> <<c>> \o t] :
        c \in {TempoTrack(120), TrackEmpty},
        t \in {<<>>} \cup [1 .. 1 -> TrackPool] \cup [1 .. 2 -> TrackPool]
              \cup [1 .. 5 -> {TrackMixed, TrackLate}]}

(* s := &sequencerModel{}, and the file to load is on disk *)
InitParse ==
    /\ \E f \in ForeignFiles :
          disk = [p \in Paths |-> IF p = "song.mid" THEN f ELSE NoFile]
    /\ steps = EmptyStepGrid
    /\ notes = [ch \in Channels |-> [st \in Steps |-> 0]]
    /\ bpm = 0
    /\ mode = "sequencer"
    /\ filePath = "song.mid"
    /\ cursorX = 0
    /\ cursorY = 0
    /\ isPlaying = FALSE
    /\ currentStep = 0
    /\ message = ""
    /\ selectedOut = -1
    /\ selectingPort = FALSE
    /\ outPort = -1
    /\ midiOuts = 0
    /\ ticks = <<>>
    /\ sent = <<>>
    /\ sounding = {}
    /\ event = [kind |-> "init"]
    /\ nKeys = 0
    /\ pc = "saved"
    /\ NoBrowser
    /\ saved = [steps |-> steps, notes |-> notes, bpm |-> bpm]
    /\ IdleSynth

NextParse == CodecLoad

SpecParse == InitParse /\ [][NextParse]_vars

(* The track loadMIDI reads channel ch from; none when the file is short *)
TrackOf(file, ch) ==
    IF Len(file.tracks) >= ch + 2 THEN file.tracks[ch + 2] ELSE <<>>

(* The cumulative delta ticks of the i-th event of a track; sums far       *)
(* beyond the last step are not told apart                                 *)
RECURSIVE TicksAt(_, _)
TicksAt(track, i) ==
    IF i = 0 THEN 0
    ELSE LET before == TicksAt(track, i - 1)
         IN IF before >= numSteps * ticksPerStep THEN before
            ELSE before + track[i].delta

(* The events of a track that are onsets on step st *)
Onsets(track, st) ==
    {i \in DOMAIN track :
        /\ track[i].kind = "NoteOn" /\ track[i].velocity > 0
        /\ TicksAt(track, i) < numSteps * ticksPerStep
        /\ TicksAt(track, i) \div ticksPerStep = st}

Last(S) == CHOOSE i \in S : \A j \in S : j <= i

(* C28: loadMIDI of a parseable file sets cell (ch, s) active with note k  *)
(* exactly when track ch + 1 exists and holds a NoteOn of velocity > 0 and *)
(* key k whose cumulative delta ticks t satisfy floor(t / 240) = s < 16    *)
(* (the last such event wins); NoteOff events, velocity-0 NoteOn events,   *)
(* tracks after the fifth and the channel number in a message never affect *)
(* the grid, and every other cell is inactive with its channel's default   *)
(* note.  The code adds the deltas in uint32, so an onset 2^32 ticks or    *)
(* more into a track lands on a step of the grid.                          *)
C28_GridFromOnsets ==
    pc = "loaded" =>
        \A ch \in Channels, st \in Steps :
            LET track == TrackOf(disk[filePath], ch)
                on == Onsets(track, st)
            IN /\ steps[ch][st] <=> on # {}
               /\ notes[ch][st] = IF on # {} THEN track[Last(on)].key
                                  ELSE defaultNotes[ch]

(***************************************************************************)
(* SpecEncode: saveMIDI of every pattern of active steps                   *)
(***************************************************************************)

(* Channels 0 and 2 hold the pattern A, channels 1 and 3 the other steps *)
PatternGrid(A) ==
    [ch \in Channels |-> [st \in Steps |->
        IF ch % 2 = 0 THEN st \in A ELSE st \notin A]]

(* A sequencer whose grid was edited, before saveMIDI *)
InitEncode ==
    /\ \E A \in SUBSET Steps : steps = PatternGrid(A)
    /\ notes = RampNotes
    /\ bpm = 120
    /\ mode = "sequencer"
    /\ filePath = "song.mid"
    /\ cursorX = 0
    /\ cursorY = 0
    /\ isPlaying = FALSE
    /\ currentStep = 0
    /\ message = ""
    /\ selectedOut = -1
    /\ selectingPort = FALSE
    /\ outPort = -1
    /\ midiOuts = 0
    /\ disk = [p \in Paths |-> NoFile]
    /\ ticks = <<>>
    /\ sent = <<>>
    /\ sounding = {}
    /\ event = [kind |-> "init"]
    /\ nKeys = 0
    /\ pc = "edit"
    /\ NoBrowser
    /\ saved = [steps |-> steps, notes |-> notes, bpm |-> bpm]
    /\ IdleSynth

NextEncode == CodecSave

SpecEncode == InitEncode /\ [][NextEncode]_vars

(* The track saveMIDI wrote for channel ch *)
WrittenTrack(ch) == disk[filePath].tracks[ch + 2]

(* endTick := uint32(numSteps) * ticksPerStep *)
EndTick == numSteps * ticksPerStep

(* A delta that is no wrapped difference: pos - lastTick with              *)
(* lastTick <= pos <= endTick                                              *)
Unwrapped(track) == \A i \in DOMAIN track : track[i].delta <= EndTick

(* The absolute tick of the i-th event of a track: the sum of the deltas   *)
(* up to it                                                                *)
RECURSIVE AbsTick(_, _)
AbsTick(track, i) ==
    IF i = 0 THEN 0 ELSE AbsTick(track, i - 1) + track[i].delta

(* C29: in every channel track written by saveMIDI, for any pattern of     *)
(* active steps, each delta pos - lastTick is obtained without uint32      *)
(* wrap-around, the cumulative ticks never decrease from one event to the  *)
(* next, the closing delta equals 3840 - lastEventTick and is never        *)
(* negative, and the track ends at absolute tick 3840.                     *)
C29_TrackEndsAtEndTick ==
    pc = "saved" =>
        \A ch \in Channels :
            LET track == WrittenTrack(ch)
                n     == Len(track)
            IN IF ~Unwrapped(track) THEN FALSE
               ELSE /\ \A i \in 1 .. n :
                         AbsTick(track, i - 1) <= AbsTick(track, i)
                    /\ track[n].kind = "EndOfTrack"
                    /\ track[n].delta = 3840 - AbsTick(track, n - 1)
                    /\ track[n].delta >= 0
                    /\ AbsTick(track, n) = 3840

(* C29 witness: a saved file with a channel whose 16 steps are all active  *)
(* (each NoteOn one tick after the NoteOff before it, closing delta 1) and *)
(* a channel with no active step (closing delta 3840).                     *)
C29_Witness ==
    /\ pc = "saved"
    /\ \A st \in Steps : steps[0][st] /\ ~steps[1][st]
    /\ Len(WrittenTrack(0)) = 2 * numSteps + 1
    /\ WrittenTrack(0)[3].delta = 1
    /\ WrittenTrack(0)[2 * numSteps + 1].delta = 1
    /\ WrittenTrack(1) = <<EndOfTrack(3840)>>

(* The active steps of channel ch, and the k-th of a set of steps in       *)
(* ascending order                                                         *)
ActiveSteps(ch) == {st \in Steps : steps[ch][st]}

Nth(S, k) == CHOOSE s \in S : Cardinality({t \in S : t < s}) = k - 1

(* C30: saveMIDI writes the tempo track plus exactly 4 channel tracks; the *)
(* track of channel ch holds, for each active step in ascending order, one *)
(* NoteOn (velocity 100, the note of the cell) at absolute tick step * 240 *)
(* and one NoteOff at absolute tick step * 240 + 239, and no event for an  *)
(* inactive step; hence every note ends before the tick at which the next  *)
(* step begins.                                                            *)
C30_OneNotePerActiveStep ==
    pc = "saved" =>
        /\ Len(disk[filePath].tracks) = 1 + 4
        /\ \E i \in DOMAIN disk[filePath].tracks[1] :
              disk[filePath].tracks[1][i].kind = "Tempo"
        /\ \A ch \in Channels :
              LET track == WrittenTrack(ch)
                  n     == Cardinality(ActiveSteps(ch))
              IN IF ~Unwrapped(track) THEN FALSE
                 ELSE /\ Len(track) = 2 * n + 1
                      /\ track[2 * n + 1].kind = "EndOfTrack"
                      /\ \A k \in 1 .. n :
                            LET st  == Nth(ActiveSteps(ch), k)
                                on  == track[2 * k - 1]
                                off == track[2 * k]
                            IN /\ on.kind = "NoteOn"
                               /\ on.velocity = 100
                               /\ on.key = notes[ch][st]
                               /\ on.channel = ch
                               /\ AbsTick(track, 2 * k - 1) = st * 240
                               /\ off.kind = "NoteOff"
                               /\ off.key = notes[ch][st]
                               /\ off.channel = ch
                               /\ AbsTick(track, 2 * k) = st * 240 + 239
                               /\ AbsTick(track, 2 * k) < (st + 1) * 240

(* C30 witness: a saved file whose channel 2 has steps 0, 1 and 15 active  *)
(* and the steps between inactive: three notes, the second one tick after  *)
(* the first ended, the third 3360 ticks into the track.                   *)
C30_Witness ==
    /\ pc = "saved"
    /\ ActiveSteps(2) = {0, 1, 15}
    /\ Len(WrittenTrack(2)) = 7
    /\ WrittenTrack(2)[3] = NoteOnMsg(1, 2, notes[2][1], 100)
    /\ WrittenTrack(2)[5] = NoteOnMsg(3121, 2, notes[2][15], 100)
    /\ WrittenTrack(2)[6] = NoteOffMsg(239, 2, notes[2][15])

(***************************************************************************)
(* Order of control operations on different keys (C31)                     *)
(***************************************************************************)

(* NoteOn or NoteOff as recorded in lastOp, applied to a pool *)
ApplyControl(vs, o) ==
    IF o.op = "NoteOn"
    THEN NoteOnVoices(vs, o.channel, o.note, o.velocity)
    ELSE noteOffLocked(vs, o.channel, o.note)

(* The voices of a pool as (channel, note, velocity, releasing, active) *)
Entries(vs) ==
    {<<vs[i].channel, vs[i].note, vs[i].velocity, vs[i].releasing,
       vs[i].active>> : i \in DOMAIN vs}

(* This step is a NoteOn or NoteOff made directly after a NoteOn or        *)
(* NoteOff of another (channel, note); lastOp.pre is the pool before both  *)
TwoControlOps ==
    IF nOps' = nOps + 1 /\ lastOp.op \in {"NoteOn", "NoteOff"}
       /\ lastOp'.op \in {"NoteOn", "NoteOff"}
    THEN <<lastOp.channel, lastOp.note>> # <<lastOp'.channel, lastOp'.note>>
    ELSE FALSE

(* The same two operations in the other order give the voices this step   *)
(* ends with                                                               *)
SameInOtherOrder ==
    \A mid \in {ApplyControl(lastOp.pre, lastOp')} :
        \A other \in {ApplyControl(mid, lastOp)} :
            Entries(voices') = Entries(other)

(* The slots a NoteOn can take without stealing: inactive voices and the   *)
(* room left below maxVoices                                               *)
FreeSlots(vs) ==
    Cardinality({i \in DOMAIN vs : ~vs[i].active}) + (maxVoices - Len(vs))

(* How many of the two operations start a voice *)
Starting(o) == IF o.op = "NoteOn" /\ o.velocity > 0 THEN 1 ELSE 0

(* C31 as stated: two control operations (NoteOn or NoteOff) on different  *)
(* (channel, note) keys give the same set of voices, compared as           *)
(* (channel, note, velocity, releasing, active), in either order from any  *)
(* reachable pool.                                                         *)
C31_ControlOpsCommute ==
    [][TwoControlOps => SameInOtherOrder]_vars

(* C31 amended: two control operations on different (channel, note) keys   *)
(* give the same set of voices in either order whenever the pool has an    *)
(* inactive or unallocated slot for each of them that starts a voice; when *)
(* a NoteOn has to steal voices[0] the result depends on the order.        *)
C31_CommuteUnlessStealing ==
    [][(TwoControlOps
        /\ FreeSlots(lastOp.pre) >= Starting(lastOp) + Starting(lastOp'))
       => SameInOtherOrder]_vars

(* C31 witness: a NoteOn that started a voice directly after a NoteOff of  *)
(* another key that released one, in a pool with room left.                *)
C31_Witness ==
    /\ lastOp.op = "NoteOn" /\ lastOp.velocity > 0
    /\ lastOp.prev[1] = "NoteOff"
    /\ <<lastOp.prev[2], lastOp.prev[3]>> # <<lastOp.channel, lastOp.note>>
    /\ Len(lastOp.pre) < maxVoices
    /\ \E i \in DOMAIN lastOp.pre :
          /\ lastOp.pre[i].releasing
          /\ <<lastOp.pre[i].channel, lastOp.pre[i].note>>
                = <<lastOp.prev[2], lastOp.prev[3]>>
    /\ Len(voices) = Len(lastOp.pre) + 1

(***************************************************************************)
(* SpecBytes: Note On messages of any bytes reach the Synth (C32)          *)
(***************************************************************************)

(* data[1] and data[2] of a message handed to the callback of              *)
(* inPort.Listen: the ends of the 7-bit and of the 8-bit range             *)
DataBytes == {0, 127, 128, 255}

(* Status bytes with msgType = status & 0xF0 = 0x90: channels 0 and 15 *)
NoteOnStatus == {144, 159}

(* A Synth with no voice or with maxVoices voices *)
InitBytes ==
    /\ \E n \in {0, maxVoices} : voices = PoolAfter(n)
    /\ masterVolume = 30000
    /\ lastOp = [op |-> "NewSynth"]
    /\ nOps = 0
    /\ NoCalls
    /\ IdleSequencer

(* case 0x90 of the callback: m.synth.NoteOn(status & 0x0F, data[1],       *)
(* data[2])                                                                *)
CallbackNoteOn ==
    \E status \in NoteOnStatus, note \in DataBytes, velocity \in DataBytes :
        /\ voices' = NoteOnVoices(voices, status % 16, note, velocity)
        /\ UNCHANGED masterVolume
        /\ SynthStep([op |-> "NoteOn", channel |-> status % 16,
                      note |-> note, velocity |-> velocity, pre |-> <<>>,
                      prev |-> <<>>])

NextBytes == CallbackNoteOn

SpecBytes == InitBytes /\ [][NextBytes]_vars

(* The slots the last operation wrote or appended *)
Written ==
    {i \in DOMAIN voices :
        IF i > Len(lastOp.pre) THEN TRUE ELSE voices[i] # lastOp.pre[i]}

(* C32: NoteOn never fails and range-clamps its inputs: for any 8-bit      *)
(* channel, note and velocity delivered by the external event source, the  *)
(* voice it initialises has note in 0..127 and velocity in 1..127.  The    *)
(* code stores the bytes as they come.                                     *)
C32_NoteOnClampsInputs ==
    (lastOp.op = "NoteOn" /\ lastOp.velocity > 0) =>
        \A i \in Written :
            /\ voices[i].active /\ ~voices[i].releasing
            /\ voices[i].note \in 0 .. 127
            /\ voices[i].velocity \in 1 .. 127

(***************************************************************************)
(* SpecNotes: files whose first cell holds a note at the edge of the MIDI  *)
(* range are opened and edited (C33)                                       *)
(***************************************************************************)

(* Keys of the NoteOn on step 0 of channel 0: a key of an SMF is a data    *)
(* byte, 0..127                                                            *)
EdgeNotes == {0, 64, 127}

NoteFiles ==
    {EncodeSMF(StepsOf({<<0, 0>>}),
               [DefaultNoteGrid EXCEPT ![0][0] = k], 120) : k \in EdgeNotes}
    \cup {Garbage, EncodeSMF(StepsOf(PatternActive), RampNotes, 120)}

InitNotes ==
    /\ mode = "fileBrowser"
    /\ filePath = ""
    /\ bpm = 0
    /\ steps = EmptyStepGrid
    /\ notes = [ch \in Channels |-> [st \in Steps |-> 0]]
    /\ cursorX = 0
    /\ cursorY = 0
    /\ isPlaying = FALSE
    /\ currentStep = 0
    /\ message = ""
    /\ selectedOut = 0
    /\ selectingPort = FALSE
    /\ outPort = -1
    /\ midiOuts = 0
    /\ \E f \in NoteFiles :
          disk = [p \in Paths |-> IF p = "song.mid" THEN f ELSE NoFile]
    /\ ticks = <<>>
    /\ sent = <<>>
    /\ sounding = {}
    /\ event = [kind |-> "init"]
    /\ nKeys = 0
    /\ pc = "run"
    /\ NoBrowser
    /\ saved = [steps |-> steps, notes |-> notes, bpm |-> bpm]
    /\ IdleSynth

NextNotes ==
    \/ BrowserEnter \/ BrowserNew
    \/ KeySpace \/ KeyPlus \/ KeyMinus \/ KeyW \/ KeyS \/ KeyC

SpecNotes == InitNotes /\ [][NextNotes]_vars

(* w on a cell at 127, or s on a cell at 0 *)
NoteKeyAtLimit ==
    /\ InSequencer
    /\ \/ Key("w") /\ notes[cursorY][cursorX] = 127
       \/ Key("s") /\ notes[cursorY][cursorX] = 0

(* C33: in every reachable state of the sequencer (after any sequence of   *)
(* create, load of a parseable file, toggle, note up/down, clear and tempo *)
(* commands) every cell's note is in 0..127; note up at 127 and note down  *)
(* at 0 change nothing.                                                    *)
C33_NotesInMidiRange ==
    /\ [](\A ch \in Channels, st \in Steps : notes[ch][st] \in 0 .. 127)
    /\ [][NoteKeyAtLimit =>
            UNCHANGED <<notes, steps, bpm, disk, message, filePath>>]_vars

(* C33 witness: the file whose first cell holds note 127 was opened and w  *)
(* pressed; the cell still holds 127 and so does the file.                 *)
C33_Witness ==
    /\ mode = "sequencer" /\ event = [kind |-> "key", key |-> "w"]
    /\ nKeys = 2
    /\ notes[cursorY][cursorX] = 127
    /\ LoadedGrid(disk[filePath]).notes[0][0] = 127

(***************************************************************************)
(* SpecTempo: playback of files whose tempo is far outside 20..300 (C34)   *)
(***************************************************************************)

(* Tempos of files written by other programs: the slowest a tempo event    *)
(* can hold (16777215 us per quarter note), and up to 1 us per quarter     *)
(* note                                                                    *)
ExtremeTempos == {3, 19, 301, 15000, 15001, 60000000}

TempoFiles ==
    {EncodeSMF(StepsOf(PatternActive), RampNotes, b) : b \in ExtremeTempos}

InitTempo ==
    /\ mode = "fileBrowser"
    /\ filePath = ""
    /\ bpm = 0
    /\ steps = EmptyStepGrid
    /\ notes = [ch \in Channels |-> [st \in Steps |-> 0]]
    /\ cursorX = 0
    /\ cursorY = 0
    /\ isPlaying = FALSE
    /\ currentStep = 0
    /\ message = ""
    /\ selectedOut = 0
    /\ selectingPort = FALSE
    /\ outPort = -1
    /\ midiOuts = 0
    /\ \E f \in TempoFiles :
          disk = [p \in Paths |-> IF p = "song.mid" THEN f ELSE NoFile]
    /\ ticks = <<>>
    /\ sent = <<>>
    /\ sounding = {}
    /\ event = [kind |-> "init"]
    /\ nKeys = 0
    /\ pc = "run"
    /\ NoBrowser
    /\ saved = [steps |-> steps, notes |-> notes, bpm |-> bpm]
    /\ IdleSynth

NextTempo == BrowserEnter \/ KeyPlus \/ KeyMinus \/ KeyP

SpecTempo == InitTempo /\ [][NextTempo]_vars

(* C34: whenever a tick is scheduled, 60000 / bpm / 4 never divides by     *)
(* zero and the interval passed to the timer is at least 1 ms, in every    *)
(* reachable state, including playback started after loading a file whose  *)
(* tempo event lies outside 20..300.  A file of more than 15000 bpm is     *)
(* played with an interval of 0 ms.                                        *)
C34_IntervalAtLeastOneMs ==
    /\ mode = "sequencer" => bpm # 0
    /\ \A i \in DOMAIN ticks : ticks[i].interval >= 1

(***************************************************************************)
(* Notes the tick handler leaves sounding (C35, C36)                       *)
(***************************************************************************)

(* The (channel, key) pairs of the messages of one kind handed to sendFunc *)
(* in the last step                                                        *)
SentKeys(kind) ==
    {<<sent[i].channel, sent[i].key>> :
        i \in {j \in DOMAIN sent : sent[j].kind = kind}}

(* The last step was a tick handled during playback *)
PlayedTick == event.kind = "tick" /\ event.played

(* C35: during playback, every NoteOn emitted at a tick is followed at the *)
(* next tick by a NoteOff for the same channel and note, even when the     *)
(* user toggles that cell, changes its note or clears its channel between  *)
(* the two ticks: after a tick the output holds on no note but those this  *)
(* tick started.  The tick handler takes the NoteOff from the grid as it   *)
(* is now, so an edit between two ticks leaves the note on.                *)
C35_NoteOffAtNextTick ==
    PlayedTick => sounding \subseteq SentKeys("NoteOn")

(* C36: within a playback session every NoteOff emitted by a tick refers   *)
(* to a (channel, note) for which a NoteOn was emitted earlier in the same *)
(* session and has not been turned off since; in particular the first tick *)
(* after Start emits no NoteOff that lacks a preceding NoteOn.  p sets the *)
(* play-head to step 0 without sounding it, and the first tick sends the   *)
(* NoteOff of the active cells of step 0.                                  *)
C36_NoteOffHasNoteOn ==
    [][(isPlaying /\ event'.kind = "tick") =>
          \A i \in DOMAIN sent' :
              sent'[i].kind = "NoteOff" =>
                  <<sent'[i].channel, sent'[i].key>> \in sounding]_vars

(***************************************************************************)
(* The sequencer always has a file (C37)                                   *)
(***************************************************************************)

(* This step takes the program from the file browser into the sequencer *)
EntersSequencer == mode # "sequencer" /\ mode' = "sequencer"

(* C37: whenever the application is in sequencer mode, filePath is         *)
(* non-empty, so saveMIDI never returns the 'no file path set' error;      *)
(* sequencer mode is entered only by a loadMIDI (enter) or createNewMIDI   *)
(* (n) call that returned no error, which leaves a readable file at        *)
(* filePath.                                                               *)
C37_SequencerHasFilePath ==
    /\ [](mode = "sequencer" => filePath # "")
    /\ [][EntersSequencer =>
            /\ mode = "fileBrowser"
            /\ event' \in {[kind |-> "key", key |-> "enter"],
                           [kind |-> "key", key |-> "n"]}
            /\ filePath' # ""
            /\ ~ReadFails(disk'[filePath'])]_vars

(* C37 witness: n created new_sequence.mid and opened the sequencer on it  *)
C37_Witness ==
    /\ mode = "sequencer"
    /\ event = [kind |-> "key", key |-> "n"]
    /\ filePath = "new_sequence.mid"
    /\ disk[filePath] = EncodeSMF(EmptyStepGrid, DefaultNoteGrid, 120)

(***************************************************************************)
(* SpecUI: the MIDI callback beside Update and View of the virtual device  *)
(* (C38).  The sources hold two versions of the callback: in               *)
(* src/cmd/manual.go it writes activeNotes, messageCount and lastMessage   *)
(* itself ("direct"); in src/unnamed/part_000 it posts a midiEventMsg with *)
(* program.Send and Update writes them ("posted").  The callback runs on   *)
(* the MIDI driver's thread, Update and View on the thread of the program. *)
(***************************************************************************)

Builds == {"direct", "posted"}

(* Messages arriving at the virtual port: Note On, Note On with velocity 0 *)
(* and Note Off                                                            *)
UIMessages ==
    {[kind |-> "noteOn", channel |-> 0, note |-> 60, velocity |-> 100],
     [kind |-> "noteOn", channel |-> 0, note |-> 60, velocity |-> 0],
     [kind |-> "noteOff", channel |-> 1, note |-> 61, velocity |-> 0],
     [kind |-> "noteOn", channel |-> 1, note |-> 61, velocity |-> 100]}

(* initMIDI, the initResultMsg and listenMIDI have succeeded *)
InitUI ==
    /\ voices = NoVoices
    /\ masterVolume = ClampVolume(EnvOne \div 2)
    /\ lastOp = [op |-> "NewSynth"]
    /\ nOps = 0
    /\ mu = "none"
    /\ thr = [t \in Threads |-> NoCall]
    /\ serial = [voices |-> NoVoices, masterVolume |-> 30000]
    /\ rendered = 0
    /\ session = [NoSession EXCEPT !.pc = "run", !.result = "ok",
                                   !.synth = "open", !.driver = "open",
                                   !.inPort = "open", !.stopFunc = "set"]
    /\ \E b \in Builds : ui = [NoUI EXCEPT !.build = b]
    /\ IdleSequencer

UIFrame ==
    UNCHANGED <<seqVars, envVars, codecVars, browserVars, masterVolume,
                lastOp, mu, serial, rendered, session>>

(* The program has not died of a concurrent map access *)
Alive == ~ui.crashed

(* activeNotes after the writes of one handler *)
NotesAfter(an, op) ==
    CASE op.kind = "noteOn" /\ op.velocity > 0 ->
            an \cup {<<op.channel, op.note>>}
      [] op.kind \in {"noteOn", "noteOff"} -> an \ {<<op.channel, op.note>>}
      [] op.kind = "panic" -> {}
      [] OTHER -> an

MessageAfter(msg, op) ==
    CASE op.kind = "noteOn" /\ op.velocity > 0 -> "Note On"
      [] op.kind \in {"noteOn", "noteOff"} -> "Note Off"
      [] op.kind = "panic" -> "All notes off (panic)"
      [] OTHER -> msg

(* Thread t is inside an access to activeNotes while another thread is     *)
(* inside one too, and one of the two writes                               *)
Conflict(t) ==
    \E a, b \in ui.access : a[1] = t /\ b[1] # t /\ "w" \in {a[2], b[2]}

(* The callback of inPort.Listen up to its call on the Synth; then it      *)
(* goes on to write the model (direct) or posts the event (posted)         *)
CallbackReceive ==
    /\ Alive /\ thr["midi"].pc = "idle" /\ nOps < MaxOps
    /\ \E msg \in UIMessages :
          /\ voices' = IF msg.kind = "noteOn"
                        THEN NoteOnVoices(voices, msg.channel, msg.note,
                                          msg.velocity)
                        ELSE noteOffLocked(voices, msg.channel, msg.note)
          /\ IF ui.build = "direct"
             THEN /\ thr' = [thr EXCEPT !["midi"] =
                                [pc |-> "write", op |-> msg, left |-> 0]]
                  /\ UNCHANGED ui
             ELSE /\ ui' = [ui EXCEPT !.queue = Append(@, msg)]
                  /\ UNCHANGED thr
    /\ nOps' = nOps + 1
    /\ UIFrame

(* m.activeNotes[...] = ..., delete(m.activeNotes, ...) in the callback:   *)
(* the access begins                                                       *)
CallbackBegin ==
    /\ Alive /\ thr["midi"].pc = "write"
    /\ thr' = [thr EXCEPT !["midi"].pc = "writing"]
    /\ ui' = [ui EXCEPT !.access = @ \cup {<<"midi", "w">>}]
    /\ UNCHANGED <<voices, nOps>>
    /\ UIFrame

(* An access of thread t ends.  A map accessed by two threads at once, one *)
(* of them writing, is a data race: the Go runtime may stop the program    *)
(* ("concurrent map read and map write") or let the access through.        *)
Finish(t) ==
    /\ \E crash \in (IF Conflict(t) THEN BOOLEAN ELSE {FALSE}) :
          ui' = IF crash THEN [ui EXCEPT !.crashed = TRUE]
                ELSE [ui EXCEPT
                        !.activeNotes = NotesAfter(@, thr[t].op),
                        !.lastMessage = MessageAfter(@, thr[t].op),
                        !.messageCount =
                            IF thr[t].op.kind \in {"noteOn", "noteOff"}
                            THEN @ + 1 ELSE @,
                        !.access = {a \in @ : a[1] # t}]
    /\ thr' = [thr EXCEPT ![t] = NoCall]
    /\ UNCHANGED <<voices, nOps>>
    /\ UIFrame

CallbackEnd == Alive /\ thr["midi"].pc = "writing" /\ Finish("midi")

(* case midiEventMsg of Update: handleMIDIEvent, messageCount++ *)
UpdateMidiEvent ==
    /\ Alive /\ thr["ui"].pc = "idle" /\ ui.queue # <<>>
    /\ thr' = [thr EXCEPT !["ui"] =
                  [pc |-> "writing", op |-> Head(ui.queue), left |-> 0]]
    /\ ui' = [ui EXCEPT !.queue = Tail(@),
                        !.access = @ \cup {<<"ui", "w">>}]
    /\ UNCHANGED <<voices, nOps>>
    /\ UIFrame

(* case " " of Update (manual.go): AllNotesOff, then                       *)
(* m.activeNotes = make(map[string]noteDisplay)                            *)
UpdatePanic ==
    /\ Alive /\ thr["ui"].pc = "idle" /\ ui.build = "direct"
    /\ nOps < MaxOps /\ nOps' = nOps + 1
    /\ voices' = AllNotesOffVoices(voices)
    /\ thr' = [thr EXCEPT !["ui"] =
                  [pc |-> "writing", op |-> [kind |-> "panic"], left |-> 0]]
    /\ ui' = [ui EXCEPT !.access = @ \cup {<<"ui", "w">>}]
    /\ UIFrame

(* View: len(m.activeNotes), range m.activeNotes, renderKeyboard *)
View ==
    /\ Alive /\ thr["ui"].pc = "idle"
    /\ thr' = [thr EXCEPT !["ui"] =
                  [pc |-> "reading", op |-> [kind |-> "view"], left |-> 0]]
    /\ ui' = [ui EXCEPT !.access = @ \cup {<<"ui", "r">>}]
    /\ UNCHANGED <<voices, nOps>>
    /\ UIFrame

UiEnd == Alive /\ thr["ui"].pc \in {"writing", "reading"} /\ Finish("ui")

NextUI ==
    \/ CallbackReceive \/ CallbackBegin \/ CallbackEnd
    \/ UpdateMidiEvent \/ UpdatePanic \/ View \/ UiEnd

SpecUI == InitUI /\ [][NextUI]_vars

(* C38: in the virtual device the UI state (activeNotes, lastMessage,      *)
(* messageCount) is written only by the Update loop: the MIDI callback     *)
(* only calls the synth and posts midiEventMsg messages, so no             *)
(* interleaving of the callback with Update or View accesses activeNotes   *)
(* concurrently.  The callback of src/cmd/manual.go writes all three       *)
(* itself, on the driver's thread.                                         *)
C38_UIStateWrittenByUpdateOnly ==
    /\ \A a \in ui.access : a[2] = "w" => a[1] = "ui"
    /\ \A t \in Threads : ~Conflict(t)

=============================================================================
